---- MODULE Spec2Model ----
(***************************************************************************)
(* DeepResearchFlow: the search-result cache, the paper upsert, the        *)
(* connection recorder, the citation-graph assembler and the paper chat of *)
(* the route layer (src/unnamed/part_011) over the storage layer           *)
(* (src/server/storage.ts), behind the token middleware of                 *)
(* src/unnamed/part_012.                                                   *)
(*                                                                         *)
(* Strings the code concatenates are sequences of one-character strings.   *)
(***************************************************************************)
EXTENDS Integers, Sequences, FiniteSets, TLC

VARIABLES
  backend,      \* which storage class is behind `storage`
  papers,       \* the papers table: a function from the stored paperIds
  connections,  \* the paper_connections table: a sequence of rows
  searchCache,  \* the search_cache table: a set of rows
  searchQueries,\* the search_queries table: a sequence of rows
  now,          \* the wall clock, in hours
  req,          \* the requests in flight and their responses, per slot
  hArgs,        \* generateCacheHash: the two argument tuples last hashed
  hKeys,        \* generateCacheHash: the two keys returned for them
  users,        \* the users table: a function from the registered user ids
  chatSessions, \* the chat_sessions table: a sequence of rows, the id is the index
  chatMessages  \* the chat_messages table: a sequence of rows in creation order

vars ==
  <<backend, papers, connections, searchCache, searchQueries, now, req, hArgs,
    hKeys, users, chatSessions, chatMessages>>

storeVars == <<backend, papers, connections, searchCache, searchQueries, now>>
hashVars == <<hArgs, hKeys>>
chatVars == <<users, chatSessions, chatMessages>>

\* JavaScript undefined, for a string and for a number
AbsentStr == <<"undefined">>
AbsentNum == 0 - 1

----------------------------------------------------------------------------
(* Bounds of the model.                                                    *)

\* requests in flight at once
NumReqs == 2
\* the clock stops advancing here
MaxTime == 2
\* rows the connections table may hold
MaxConns == 2
\* history rows the search_queries table may hold
MaxHistory == 2
\* rows of the connections table a graph is asked over
MaxEdges == 2
\* rows the chat_messages table may hold when requests follow one another
MaxMessages == 2

----------------------------------------------------------------------------
(* JavaScript helpers.                                                     *)

Min(a, b) == IF a < b THEN a ELSE b

\* JavaScript truthiness of an optional string and of an optional number
TruthyStr(v) == v # AbsentStr /\ v # <<>>
TruthyNum(v) == v # AbsentNum /\ v # 0

\* Array.prototype.slice(start, end) for start, end >= 0
Slice(arr, start, end) ==
  LET s == Min(start, Len(arr))
      e == Min(end, Len(arr))
  IN  IF e <= s THEN <<>> ELSE SubSeq(arr, s + 1, e)

Digit(d) == CASE d = 0 -> "0" [] d = 1 -> "1" [] d = 2 -> "2" [] d = 3 -> "3"
              [] d = 4 -> "4" [] d = 5 -> "5" [] d = 6 -> "6" [] d = 7 -> "7"
              [] d = 8 -> "8" [] d = 9 -> "9"

RECURSIVE NumToString(_)
\* Number.prototype.toString of a non-negative integer
NumToString(n) ==
  IF n < 10 THEN <<Digit(n)>> ELSE NumToString(n \div 10) \o <<Digit(n % 10)>>

\* `${v || ''}` for a string filter
StrOrEmpty(v) == IF TruthyStr(v) THEN v ELSE <<>>

\* `${v || ''}` for a numeric filter
NumOrEmpty(v) == IF TruthyNum(v) THEN NumToString(v) ELSE <<>>

----------------------------------------------------------------------------
(* The cache key.                                                          *)

\* crypto.createHash('md5').update(key).digest('hex'): the digest of a key
\* string, taken as collision-free
Md5(key) == [md5 |-> key]

\* a key that leaves the minimum-citation filter out
generateCacheHashNoMinCitations(query, field, year, minCitations) ==
  Md5(query \o <<"|">> \o StrOrEmpty(field) \o <<"|">> \o NumOrEmpty(year)
      \o <<"|">>)

generateCacheHash(query, field, year, minCitations) ==
  Md5(query \o <<"|">> \o StrOrEmpty(field) \o <<"|">> \o NumOrEmpty(year)
      \o <<"|">> \o NumOrEmpty(minCitations))

HashQueries == {<<"a">>, <<"a", "|">>}
HashFields == {AbsentStr, <<>>, <<"b">>, <<"|", "b">>}
HashYears == {AbsentNum, 0, 1, 10}
HashMinCitations == {AbsentNum, 0, 5}

HashInputs ==
  [query : HashQueries, field : HashFields, year : HashYears,
   minCitations : HashMinCitations]

HashOf(a) == generateCacheHash(a.query, a.field, a.year, a.minCitations)

\* lookup k computes the key of its arguments
HashOne(k) ==
  /\ \E a \in HashInputs :
       /\ hArgs' = [hArgs EXCEPT ![k] = a]
       /\ hKeys' = [hKeys EXCEPT ![k] = HashOf(a)]
  /\ UNCHANGED <<storeVars, req, chatVars>>

----------------------------------------------------------------------------
(* The storage layer.                                                      *)

\* storage.ts holds three classes behind the IStorage interface: the first
\* DatabaseStorage, MemStorage and the second DatabaseStorage
Backends == {"db", "mem", "db2"}

PaperIds == {"P1", "P2", "P3"}

\* getPaper: the stored record of paperId, if any
getPaper(table, paperId) == IF paperId \in DOMAIN table THEN {table[paperId]} ELSE {}

hasPaper(table, paperId) == paperId \in DOMAIN table

Put(table, paperId, rec) ==
  [q \in DOMAIN table \cup {paperId} |-> IF q = paperId THEN rec ELSE table[q]]

\* MemStorage.createPaper: the empty columns become null, and the record is
\* set under its paperId whatever the map holds
MemPaper(insertPaper) ==
  [insertPaper EXCEPT
     !.abstract = IF insertPaper.abstract = "" THEN "null" ELSE @,
     !.url = IF insertPaper.url = "" THEN "null" ELSE @]

\* createPaper on a backend: the table afterwards; papers.paper_id is unique
\* in the database, so the insert of a stored paperId is rejected
createPaperThrows(b, table, insertPaper) ==
  b # "mem" /\ hasPaper(table, insertPaper.paperId)

createPaper(b, table, insertPaper) ==
  IF b = "mem"
    THEN Put(table, insertPaper.paperId, MemPaper(insertPaper))
    ELSE IF hasPaper(table, insertPaper.paperId)
           THEN table
           ELSE Put(table, insertPaper.paperId, insertPaper)

\* the rows touching paperId, by their positions in the table
TouchingEither(rows, paperId) ==
  {i \in DOMAIN rows :
     rows[i].sourcePaperId = paperId \/ rows[i].targetPaperId = paperId}

TouchingBoth(rows, paperId) ==
  {i \in DOMAIN rows :
     rows[i].sourcePaperId = paperId /\ rows[i].targetPaperId = paperId}

\* the where-clause of getPaperConnections on each backend
ConnectionMatches(b, rows, paperId) ==
  IF b = "db2" THEN TouchingBoth(rows, paperId) ELSE TouchingEither(rows, paperId)

\* the orders in which the rows at positions S can come back
Orders(S) ==
  {o \in [1..Cardinality(S) -> S] : \A i, j \in DOMAIN o : i # j => o[i] # o[j]}

IsIncreasing(o) == \A i, j \in DOMAIN o : i < j => o[i] < o[j]

\* getPaperConnections: a database select has no ORDER BY, the map of
\* MemStorage is read in insertion order
getPaperConnections(b, rows, paperId) ==
  {[i \in DOMAIN o |-> rows[o[i]]] :
     o \in {x \in Orders(ConnectionMatches(b, rows, paperId)) :
              b = "mem" => IsIncreasing(x)}}

\* an insert that leaves out a row the table already holds
createPaperConnectionOnce(rows, connection) ==
  IF \E i \in DOMAIN rows : rows[i] = connection THEN rows
  ELSE Append(rows, connection)

\* createPaperConnection: one more row, whatever is stored
createPaperConnection(rows, connection) == Append(rows, connection)

----------------------------------------------------------------------------
(* The result cache of the storage layer (getSearchCache, saveSearchCache, *)
(* clearExpiredCache).                                                     *)

CACHE_EXPIRATION_HOURS == 1

\* an expiry test that lets an entry live one hour longer
ExpiredLate(row, t) == row.expiresAt + 1 < t

\* an entry whose expiration timestamp is in the past
Expired(row, t) == row.expiresAt < t

\* the rows a lookup of queryHash can match
CacheMatches(cache, queryHash) == {row \in cache : row.queryHash = queryHash}

\* getSearchCache having matched `row`: what it returns ({} is absent)
CacheReturn(row, t) == IF Expired(row, t) THEN {} ELSE {row}

\* getSearchCache having matched `row`: the table afterwards
CacheAfterLookup(cache, row, t) == IF Expired(row, t) THEN cache \ {row} ELSE cache

\* saveSearchCache: a new row
saveSearchCache(cache, row) == cache \cup {row}

\* clearExpiredCache: the bulk sweep
clearExpiredCache(cache, t) == {row \in cache : ~Expired(row, t)}

----------------------------------------------------------------------------
(* The token middleware (requireAuth, optionalAuth).                       *)

\* String.prototype.startsWith
StartsWith(str, prefix) ==
  Len(str) >= Len(prefix) /\ SubSeq(str, 1, Len(prefix)) = prefix

\* String.prototype.substring(start)
Substring(str, start) == SubSeq(str, start + 1, Len(str))

BearerPrefix == <<"B", "e", "a", "r", "e", "r", " ">>

\* generateToken: the token signed for a user, one opaque character
generateToken(userId) == IF userId = 1 THEN <<"t1">> ELSE <<"t2">>

\* verifyToken: the payload of a token that jwt.verify accepts, {} for null
verifyToken(token) ==
  IF token = generateToken(1) THEN {[userId |-> 1]}
  ELSE IF token = generateToken(2) THEN {[userId |-> 2]}
  ELSE {}

\* what a middleware leaves on the request: the status it answered with (0
\* when it called next) and req.userId
Passed(userId) == [status |-> 0, userId |-> userId]

Denied == [status |-> 401, userId |-> AbsentNum]

\* a requireAuth that takes whatever follows the prefix as the token of
\* the first user
requireAuthUnverified(authHeader) ==
  IF ~TruthyStr(authHeader) \/ ~StartsWith(authHeader, BearerPrefix)
    THEN Denied
    ELSE Passed(1)

requireAuth(authHeader) ==
  IF ~TruthyStr(authHeader) \/ ~StartsWith(authHeader, BearerPrefix)
    THEN Denied
    ELSE LET decoded == verifyToken(Substring(authHeader, 7))
         IN  IF decoded = {} THEN Denied
             ELSE Passed((CHOOSE d \in decoded : TRUE).userId)

optionalAuth(authHeader) ==
  IF TruthyStr(authHeader) /\ StartsWith(authHeader, BearerPrefix)
    THEN LET decoded == verifyToken(Substring(authHeader, 7))
         IN  IF decoded = {} THEN Passed(AbsentNum)
             ELSE Passed((CHOOSE d \in decoded : TRUE).userId)
    ELSE Passed(AbsentNum)

Bearer(token) == BearerPrefix \o token

\* the Authorization headers of the clients: none, the tokens of the two
\* users, a token that does not verify, a Basic header and a bare token
Headers ==
  {AbsentStr, Bearer(generateToken(1)), Bearer(generateToken(2)),
   Bearer(<<"tx">>), <<"B", "a", "s", "i", "c", " ">> \o generateToken(1),
   generateToken(1)}

----------------------------------------------------------------------------
(* The bibliographic provider (Semantic Scholar), as the routes see it.    *)

\* the authors the provider lists for a paper; only some carry an authorId,
\* and the papers beyond the third list none
ProviderAuthors(p) ==
  CASE p = "P1" -> <<[name |-> "A1", authorId |-> "a1", hIndex |-> AbsentNum]>>
    [] p = "P2" -> <<>>
    [] p = "P3" -> <<[name |-> "B1", authorId |-> "b1", hIndex |-> AbsentNum],
                     [name |-> "B2", authorId |-> "b2", hIndex |-> AbsentNum],
                     [name |-> "B3", authorId |-> "undefined", hIndex |-> AbsentNum],
                     [name |-> "B4", authorId |-> "undefined", hIndex |-> AbsentNum]>>
    [] OTHER -> <<>>

\* the record the provider holds for a paper; P2 has no title and no counts
ProviderPaper(p) ==
  [paperId |-> p,
   title |-> IF p = "P2" THEN "" ELSE "Title",
   authors |-> ProviderAuthors(p),
   abstract |-> "abs",
   citationCount |-> IF p = "P2" THEN 0 ELSE 7,
   referenceCount |-> IF p = "P2" THEN 0 ELSE 3,
   url |-> "url"]

\* the provider's full, unpaginated result list of a query
Catalog(query) ==
  CASE query = <<"a">> -> <<"P1", "P2", "P3">>
    [] query = <<"b">> -> <<"P2">>
    [] OTHER -> <<>>

\* GET /paper/search?query&offset&limit on success: one page and the total
ProviderSearch(query, offset, limit) ==
  LET full == Catalog(query)
      page == Slice(full, offset, offset + limit)
  IN  [data |-> [i \in DOMAIN page |-> ProviderPaper(page[i])],
       total |-> Len(full),
       offset |-> offset]

----------------------------------------------------------------------------
(* Requests. A slot holds one request from its arrival to its response;    *)
(* every await of a handler is a step other requests can interleave with.  *)

Reqs == 1..NumReqs

Idle == [kind |-> "idle", pc |-> "done", attempted |-> {}, rejected |-> "none",
         status |-> 0]

\* a slot that can take the next request
Free(r) == req[r].pc = "done"

DEFAULT_LIMIT == 20
DEFAULT_EDGE_LIMIT == 20

\* `offset = 0, limit = 20` of the destructured body
OffsetOf(body) == IF body.offset = AbsentNum THEN 0 ELSE body.offset
LimitOf(body) == IF body.limit = AbsentNum THEN DEFAULT_LIMIT ELSE body.limit

\* the answers already given to searches that asked what `body` asks
PriorSearches(body) ==
  {[status |-> req[q].status, cached |-> req[q].cached,
    papers |-> req[q].rpapers, expiresAt |-> req[q].expiresAt] :
     q \in {x \in Reqs :
              /\ req[x].kind = "search"
              /\ req[x].pc = "done"
              /\ req[x].body = body}}

\* the history rows the searches of signed-in users have yet to write, two
\* for each search that has not answered
PendingHistory ==
  2 * Cardinality({q \in Reqs : /\ req[q].kind = "search"
                                /\ req[q].pc # "done"
                                /\ TruthyNum(req[q].userId)})

\* POST /api/papers/search arrives and passes optionalAuth (line 261)
SearchStart(r, body, authHeader) ==
  /\ Free(r)
  /\ TruthyNum(optionalAuth(authHeader).userId) =>
       Len(searchQueries) + PendingHistory + 2 <= MaxHistory
  /\ req' = [req EXCEPT ![r] =
       [kind |-> "search", pc |-> "lookup", body |-> body,
        authorization |-> authHeader,
        userId |-> optionalAuth(authHeader).userId,
        nHistory |-> 0, fetchOk |-> FALSE, enrichFailed |-> {},
        prior |-> PriorSearches(body),
        cacheHash |-> Md5(<<>>), papers |-> <<>>, total |-> 0,
        expiresAt |-> AbsentNum, i |-> 1, enrichedAuthors |-> <<>>,
        lookupAt |-> AbsentNum, matchedRow |-> {},
        nFetch |-> 0, nStore |-> 0, attempted |-> {}, rejected |-> "none",
        status |-> 0, rpapers |-> <<>>, rtotal |-> 0, roffset |-> 0,
        cached |-> FALSE]]
  /\ UNCHANGED <<storeVars, hashVars, chatVars>>

\* res.status(code).json({error})
Fail(r, code) == [req[r] EXCEPT !.pc = "done", !.status = code]

\* the insert of paperId was rejected and the handler's catch answers 500
Rejected(r, paperId) ==
  [Fail(r, 500) EXCEPT !.attempted = @ \cup {paperId}, !.rejected = paperId]

\* a hit that ignores the offset
HitPageFromZero(results, offset, limit) == Slice(results, 0, limit)

\* lines 277-279: the papers a cache hit answers with
HitPage(results, offset, limit) == Slice(results, offset, offset + limit)

\* a miss that is turned away while another request for the same key is
\* between its lookup and its response
MissedUnlessInFlight(r, cacheHash, matched) ==
  IF \E q \in Reqs \ {r} : /\ req[q].kind = "search"
                            /\ req[q].pc \notin {"lookup", "done"}
                            /\ req[q].cacheHash = cacheHash
    THEN [Fail(r, 503) EXCEPT !.cacheHash = cacheHash, !.lookupAt = now,
                              !.matchedRow = matched]
    ELSE [req[r] EXCEPT
            !.pc = IF TruthyNum(req[r].userId) THEN "history" ELSE "fetch",
            !.cacheHash = cacheHash, !.lookupAt = now, !.matchedRow = matched]

\* a miss falls through to the history row of an authenticated user (lines
\* 292-302), and to the external search otherwise
Missed(r, cacheHash, matched) ==
  [req[r] EXCEPT !.pc = IF TruthyNum(req[r].userId) THEN "history" ELSE "fetch",
                 !.cacheHash = cacheHash, !.lookupAt = now,
                 !.matchedRow = matched]

\* a validation that tests the query for falsiness alone
InvalidQueryFalsyOnly(body) == ~TruthyStr(body.query)

\* line 266: `!query || typeof query !== 'string'`
InvalidQuery(body) == ~TruthyStr(body.query) \/ body.queryType # "string"

\* lines 263-288: validation, the cache key, the lookup and the hit branch
SearchLookup(r) ==
  /\ req[r].kind = "search" /\ req[r].pc = "lookup"
  /\ LET body == req[r].body
         cacheHash == generateCacheHash(body.query, body.field, body.year,
                                        body.minCitations)
         matches == CacheMatches(searchCache, cacheHash)
     IN  IF InvalidQuery(body)
           THEN /\ req' = [req EXCEPT ![r] = Fail(r, 400)]
                /\ UNCHANGED searchCache
           ELSE IF matches = {}
             THEN /\ req' = [req EXCEPT ![r] = Missed(r, cacheHash, {})]
                  /\ UNCHANGED searchCache
             ELSE \E row \in matches :
                    /\ searchCache' = CacheAfterLookup(searchCache, row, now)
                    /\ IF CacheReturn(row, now) = {}
                         THEN req' = [req EXCEPT ![r] = Missed(r, cacheHash, {row})]
                         ELSE req' = [req EXCEPT
                                ![r].pc = "done", ![r].status = 200,
                                ![r].cacheHash = cacheHash,
                                ![r].lookupAt = now,
                                ![r].matchedRow = {row},
                                ![r].rpapers = HitPage(row.results, OffsetOf(body),
                                                       LimitOf(body)),
                                ![r].rtotal = row.total,
                                ![r].roffset = OffsetOf(body),
                                ![r].cached = TRUE]
  /\ UNCHANGED <<backend, papers, connections, searchQueries, now, hashVars, chatVars>>

\* lines 292-302: the history row written before the fetch
SearchHistory(r) ==
  /\ req[r].kind = "search" /\ req[r].pc = "history"
  /\ searchQueries' =
       Append(searchQueries,
              [userId |-> req[r].userId, query |-> req[r].body.query,
               resultCount |-> 0, resultsData |-> <<>>])
  /\ req' = [req EXCEPT ![r].pc = "fetch", ![r].nHistory = @ + 1]
  /\ UNCHANGED <<backend, papers, connections, searchCache, now, hashVars, chatVars>>

\* lines 432-438: the response of a miss
Respond(rec) ==
  [rec EXCEPT !.pc = "done", !.status = 200, !.rpapers = rec.papers,
              !.rtotal = rec.total, !.roffset = OffsetOf(rec.body),
              !.cached = FALSE]

\* the loop of line 354 at paper i; past the last paper the handler writes
\* the second history row of an authenticated user, or responds
AtPaper(rec, i) ==
  IF i <= Len(rec.papers)
    THEN [rec EXCEPT !.pc = "loop", !.i = i]
    ELSE IF TruthyNum(rec.userId)
           THEN [rec EXCEPT !.pc = "history2", !.i = i]
           ELSE Respond([rec EXCEPT !.i = i])

\* `data.total || papers.length`
TotalOf(data) == IF data.total # 0 THEN data.total ELSE Len(data.data)

\* a failed fetch that goes on to the cache with no papers
SearchFetchFailedSaves(r) ==
  [req[r] EXCEPT !.pc = "save", !.nFetch = @ + 1]

\* lines 326-330 and 439-442: a failed fetch is thrown to the catch
SearchFetchFailed(r) ==
  [Fail(r, 500) EXCEPT !.nFetch = @ + 1]

\* lines 304-334: the external search, for the page the request asked for
SearchFetch(r) ==
  /\ req[r].kind = "search" /\ req[r].pc = "fetch"
  /\ \/ LET data == ProviderSearch(req[r].body.query, OffsetOf(req[r].body),
                                   LimitOf(req[r].body))
        IN  req' = [req EXCEPT ![r].pc = "save", ![r].papers = data.data,
                               ![r].total = TotalOf(data),
                               ![r].nFetch = @ + 1, ![r].fetchOk = TRUE]
     \/ \* the provider answers with a non-success status, or the call fails
        req' = [req EXCEPT ![r] = SearchFetchFailed(r)]
  /\ UNCHANGED <<storeVars, hashVars, chatVars>>

\* lines 336-349: the cache row of this request
SearchSave(r) ==
  /\ req[r].kind = "search" /\ req[r].pc = "save"
  /\ LET expiresAt == now + CACHE_EXPIRATION_HOURS
     IN  /\ searchCache' = saveSearchCache(searchCache,
              [queryHash |-> req[r].cacheHash, query |-> req[r].body.query,
               results |-> req[r].papers, total |-> req[r].total,
               expiresAt |-> expiresAt])
         /\ req' = [req EXCEPT ![r] =
              AtPaper([req[r] EXCEPT !.expiresAt = expiresAt, !.nStore = @ + 1],
                      1)]
  /\ UNCHANGED <<backend, papers, connections, searchQueries, now, hashVars, chatVars>>

\* lines 354-357: the next paper of the page is looked up
SearchLoop(r) ==
  /\ req[r].kind = "search" /\ req[r].pc = "loop"
  /\ LET paperData == req[r].papers[req[r].i]
     IN  req' = [req EXCEPT ![r] =
           IF hasPaper(papers, paperData.paperId)
             THEN AtPaper(req[r], req[r].i + 1)
             ELSE IF Len(paperData.authors) > 0
                    THEN [req[r] EXCEPT !.pc = "enrich", !.enrichFailed = {}]
                    ELSE [req[r] EXCEPT !.pc = "create", !.enrichFailed = {},
                                        !.enrichedAuthors = paperData.authors]]
  /\ UNCHANGED <<storeVars, hashVars, chatVars>>

\* the h-index the author endpoint reports
AUTHOR_HINDEX == 5

\* an enrichment that loses the authorId of an author it did not enrich
EnrichAuthorsLosingId(authors, ok) ==
  LET firstThree == Slice(authors, 0, 3)
  IN  [k \in DOMAIN firstThree |->
         [firstThree[k] EXCEPT !.hIndex = IF k \in ok THEN AUTHOR_HINDEX ELSE AbsentNum,
                               !.authorId = IF k \in ok THEN @ ELSE "undefined"]]

\* lines 361-394: one author fetch for each of the first three authors, all
\* joined; ok is the set of the fetches that succeed
EnrichAuthors(authors, ok) ==
  LET firstThree == Slice(authors, 0, 3)
  IN  [k \in DOMAIN firstThree |->
         [firstThree[k] EXCEPT !.hIndex = IF k \in ok THEN AUTHOR_HINDEX ELSE AbsentNum]]

SearchEnrich(r) ==
  /\ req[r].kind = "search" /\ req[r].pc = "enrich"
  /\ LET authors == req[r].papers[req[r].i].authors
         fetched == {k \in 1..Min(3, Len(authors)) : authors[k].authorId # "undefined"}
     IN  \E ok \in SUBSET fetched :
           req' = [req EXCEPT ![r].pc = "create",
                              ![r].enrichFailed = fetched \ ok,
                              ![r].enrichedAuthors = EnrichAuthors(authors, ok)]
  /\ UNCHANGED <<storeVars, hashVars, chatVars>>

\* `title || 'Untitled'`
TitleOf(paperData) == IF paperData.title = "" THEN "Untitled" ELSE paperData.title

\* lines 396-411: the record the search endpoint inserts
SearchInsert(paperData, enrichedAuthors) ==
  [paperId |-> paperData.paperId,
   title |-> TitleOf(paperData),
   authors |-> enrichedAuthors,
   abstract |-> paperData.abstract,
   citationCount |-> paperData.citationCount,
   referenceCount |-> paperData.referenceCount,
   url |-> paperData.url]

\* line 396: the insert; a rejected insert is thrown to the catch of line 439
SearchCreate(r) ==
  /\ req[r].kind = "search" /\ req[r].pc = "create"
  /\ LET insertPaper == SearchInsert(req[r].papers[req[r].i], req[r].enrichedAuthors)
     IN  IF createPaperThrows(backend, papers, insertPaper)
           THEN /\ req' = [req EXCEPT ![r] = Rejected(r, insertPaper.paperId)]
                /\ UNCHANGED papers
           ELSE /\ papers' = createPaper(backend, papers, insertPaper)
                /\ req' = [req EXCEPT ![r] =
                     AtPaper([req[r] EXCEPT !.attempted = @ \cup {insertPaper.paperId}],
                             req[r].i + 1)]
  /\ UNCHANGED <<backend, connections, searchCache, searchQueries, now, hashVars, chatVars>>

\* lines 416-430: the second history row, then the response
SearchHistory2(r) ==
  /\ req[r].kind = "search" /\ req[r].pc = "history2"
  /\ searchQueries' =
       Append(searchQueries,
              [userId |-> req[r].userId, query |-> req[r].body.query,
               resultCount |-> req[r].total,
               resultsData |-> Slice(req[r].papers, 0, 10)])
  /\ req' = [req EXCEPT ![r] = Respond([req[r] EXCEPT !.nHistory = @ + 1])]
  /\ UNCHANGED <<backend, papers, connections, searchCache, now, hashVars, chatVars>>

----------------------------------------------------------------------------
(* GET /api/papers/:paperId                                                *)

\* the identifiers a client can ask the provider for: a paperId, or another
\* identifier of a paper (a DOI) that the provider resolves to its paperId
DetailIds == PaperIds \cup {"DOI:P2"}

ProviderResolve(id) == IF id = "DOI:P2" THEN "P2" ELSE id

DetailStart(r, paperId) ==
  /\ Free(r)
  /\ req' = [req EXCEPT ![r] =
       [kind |-> "detail", pc |-> "get", paperId |-> paperId,
        paperData |-> ProviderPaper("P1"), attempted |-> {}, rejected |-> "none",
        status |-> 0, rpaper |-> {}, nFetch |-> 0, upstream |-> "none"]]
  /\ UNCHANGED <<storeVars, hashVars, chatVars>>

\* lines 476-478 and 515: the stored record is the answer
DetailGet(r) ==
  /\ req[r].kind = "detail" /\ req[r].pc = "get"
  /\ req' = [req EXCEPT ![r] =
       IF hasPaper(papers, req[r].paperId)
         THEN [req[r] EXCEPT !.pc = "done", !.status = 200,
                             !.rpaper = getPaper(papers, req[r].paperId)]
         ELSE [req[r] EXCEPT !.pc = "fetch"]]
  /\ UNCHANGED <<storeVars, hashVars, chatVars>>

\* the provider has answered the call of request r with a success status
Fetched(r) == [req[r] EXCEPT !.nFetch = @ + 1, !.upstream = "ok"]

\* lines 493-495, 541-543 and 608-610: `if (!response.ok)` answers 404
NotOk(r) == [Fail(r, 404) EXCEPT !.nFetch = @ + 1, !.upstream = "status"]

\* lines 516-519, 583-586 and 650-653: a fetch that throws is answered by
\* the catch
CallFailed(r) == [Fail(r, 500) EXCEPT !.nFetch = @ + 1, !.upstream = "failed"]

\* lines 488-497: the provider's record, 404 on a non-success status, and
\* the catch of line 516 when the call fails
DetailFetch(r) ==
  /\ req[r].kind = "detail" /\ req[r].pc = "fetch"
  /\ \/ req' = [req EXCEPT ![r] =
          [Fetched(r) EXCEPT
             !.pc = "create",
             !.paperData = ProviderPaper(ProviderResolve(req[r].paperId))]]
     \/ req' = [req EXCEPT ![r] = NotOk(r)]
     \/ req' = [req EXCEPT ![r] = CallFailed(r)]
  /\ UNCHANGED <<storeVars, hashVars, chatVars>>

\* lines 500-512: the record the detail endpoint inserts
DetailInsert(paperData) ==
  [paperId |-> paperData.paperId,
   title |-> TitleOf(paperData),
   authors |-> paperData.authors,
   abstract |-> paperData.abstract,
   citationCount |-> paperData.citationCount,
   referenceCount |-> paperData.referenceCount,
   url |-> paperData.url]

\* lines 500-515: the insert and the answer
DetailCreate(r) ==
  /\ req[r].kind = "detail" /\ req[r].pc = "create"
  /\ LET insertPaper == DetailInsert(req[r].paperData)
     IN  IF createPaperThrows(backend, papers, insertPaper)
           THEN /\ req' = [req EXCEPT ![r] = Rejected(r, insertPaper.paperId)]
                /\ UNCHANGED papers
           ELSE /\ papers' = createPaper(backend, papers, insertPaper)
                /\ req' = [req EXCEPT ![r].pc = "done", ![r].status = 200,
                                      ![r].attempted = @ \cup {insertPaper.paperId},
                                      ![r].rpaper = getPaper(papers', insertPaper.paperId)]
  /\ UNCHANGED <<backend, connections, searchCache, searchQueries, now, hashVars, chatVars>>

DetailStep(r) ==
  \/ DetailGet(r)
  \/ DetailFetch(r)
  \/ DetailCreate(r)

----------------------------------------------------------------------------
(* GET /api/papers/:paperId/citations and /references                      *)

NoPaperRef == "null"

\* what the provider lists as the papers citing P and as the papers P cites:
\* P2 and P3 cite P1, P3 cites P2, P1 cites P3; one entry has no paper
ProviderCitations(p) ==
  CASE p = "P1" -> <<[paper |-> "P2", isInfluential |-> TRUE],
                     [paper |-> "P3", isInfluential |-> FALSE]>>
    [] p = "P2" -> <<[paper |-> NoPaperRef, isInfluential |-> FALSE],
                     [paper |-> "P3", isInfluential |-> FALSE]>>
    [] p = "P3" -> <<[paper |-> "P1", isInfluential |-> TRUE]>>

ProviderReferences(p) ==
  CASE p = "P1" -> <<[paper |-> "P3", isInfluential |-> TRUE]>>
    [] p = "P2" -> <<[paper |-> "P1", isInfluential |-> TRUE]>>
    [] p = "P3" -> <<[paper |-> "P1", isInfluential |-> FALSE],
                     [paper |-> "P2", isInfluential |-> FALSE]>>

\* the first `limit` entries, as the provider pages them
ProviderEdges(kind, p, limit) ==
  Slice(IF kind = "citations" THEN ProviderCitations(p) ELSE ProviderReferences(p),
        0, limit)

\* `parseInt(req.query.limit) || 20`
EdgeLimitOf(limit) == IF TruthyNum(limit) THEN limit ELSE DEFAULT_EDGE_LIMIT

\* the connection rows the lookups in flight have yet to write
PendingRows ==
  LET RECURSIVE Sum(_)
      Sum(S) == IF S = {} THEN 0
                ELSE LET q == CHOOSE x \in S : TRUE
                     IN  (Len(req[q].edges) - req[q].i + 1) + Sum(S \ {q})
  IN  Sum({q \in Reqs : req[q].kind \in {"citations", "references"}
                        /\ req[q].pc \notin {"done", "fetch"}})

\* a citation or reference lookup arrives
EdgesStart(r, kind, paperId, limit) ==
  /\ Free(r)
  /\ req' = [req EXCEPT ![r] =
       [kind |-> kind, pc |-> "fetch", paperId |-> paperId, limit |-> limit,
        edges |-> <<>>, i |-> 1, attempted |-> {}, rejected |-> "none",
        status |-> 0, rpapers |-> <<>>, nFetch |-> 0, upstream |-> "none"]]
  /\ UNCHANGED <<storeVars, hashVars, chatVars>>

\* lines 581-582 and 648-649: the papers of the entries that have one
EdgePapers(edges) ==
  LET RECURSIVE Keep(_)
      Keep(es) == IF es = <<>> THEN <<>>
                  ELSE IF Head(es).paper = NoPaperRef THEN Keep(Tail(es))
                  ELSE <<Head(es).paper>> \o Keep(Tail(es))
  IN  Keep(edges)

\* the loop of lines 549 and 616 at entry i: an entry without a paper is
\* skipped, and past the last entry the handler responds
RECURSIVE AtEdge(_, _)
AtEdge(rec, i) ==
  IF i > Len(rec.edges)
    THEN [rec EXCEPT !.pc = "done", !.i = i, !.status = 200,
                     !.rpapers = EdgePapers(rec.edges)]
    ELSE IF rec.edges[i].paper = NoPaperRef
           THEN AtEdge(rec, i + 1)
           ELSE [rec EXCEPT !.pc = "get", !.i = i]

\* lines 536-546 and 603-613
EdgesFetch(r) ==
  /\ req[r].kind \in {"citations", "references"} /\ req[r].pc = "fetch"
  /\ \/ LET edges == ProviderEdges(req[r].kind, req[r].paperId,
                                   EdgeLimitOf(req[r].limit))
        IN  /\ Len(connections) + PendingRows + Len(edges) <= MaxConns
            /\ req' = [req EXCEPT ![r] =
                 AtEdge([Fetched(r) EXCEPT !.edges = edges], 1)]
     \/ req' = [req EXCEPT ![r] = NotOk(r)]
     \/ req' = [req EXCEPT ![r] = CallFailed(r)]
  /\ UNCHANGED <<storeVars, hashVars, chatVars>>

\* lines 553-554 and 620-621: is the other paper of the entry stored
EdgesGet(r) ==
  /\ req[r].kind \in {"citations", "references"} /\ req[r].pc = "get"
  /\ req' = [req EXCEPT ![r].pc =
       IF hasPaper(papers, req[r].edges[req[r].i].paper) THEN "connect" ELSE "create"]
  /\ UNCHANGED <<storeVars, hashVars, chatVars>>

\* lines 555-567 and 622-634: the record a lookup inserts for the citing or
\* cited paper; the lookups ask the provider for no abstract, count of
\* references or url
EdgeInsert(paperData) ==
  [paperId |-> paperData.paperId,
   title |-> TitleOf(paperData),
   authors |-> paperData.authors,
   abstract |-> "",
   citationCount |-> paperData.citationCount,
   referenceCount |-> 0,
   url |-> ""]

EdgesCreate(r) ==
  /\ req[r].kind \in {"citations", "references"} /\ req[r].pc = "create"
  /\ LET insertPaper == EdgeInsert(ProviderPaper(req[r].edges[req[r].i].paper))
     IN  IF createPaperThrows(backend, papers, insertPaper)
           THEN /\ req' = [req EXCEPT ![r] = Rejected(r, insertPaper.paperId)]
                /\ UNCHANGED papers
           ELSE /\ papers' = createPaper(backend, papers, insertPaper)
                /\ req' = [req EXCEPT ![r].pc = "connect",
                                      ![r].attempted = @ \cup {insertPaper.paperId}]
  /\ UNCHANGED <<backend, connections, searchCache, searchQueries, now, hashVars, chatVars>>

\* `isInfluential ? 2 : 1`
StrengthOf(edge) == IF edge.isInfluential THEN 2 ELSE 1

\* a row that points from the other paper to the paper asked for, for
\* references as for citations
EdgeRowInward(kind, paperId, edge) ==
  [sourcePaperId |-> edge.paper, targetPaperId |-> paperId,
   connectionType |-> IF kind = "citations" THEN "citation" ELSE "reference",
   strength |-> StrengthOf(edge)]

\* lines 571-576 and 638-643: the row of an entry
EdgeRow(kind, paperId, edge) ==
  IF kind = "citations"
    THEN [sourcePaperId |-> edge.paper, targetPaperId |-> paperId,
          connectionType |-> "citation", strength |-> StrengthOf(edge)]
    ELSE [sourcePaperId |-> paperId, targetPaperId |-> edge.paper,
          connectionType |-> "reference", strength |-> StrengthOf(edge)]

EdgesConnect(r) ==
  /\ req[r].kind \in {"citations", "references"} /\ req[r].pc = "connect"
  /\ connections' = createPaperConnection(connections,
       EdgeRow(req[r].kind, req[r].paperId, req[r].edges[req[r].i]))
  /\ req' = [req EXCEPT ![r] = AtEdge(req[r], req[r].i + 1)]
  /\ UNCHANGED <<backend, papers, searchCache, searchQueries, now, hashVars, chatVars>>

EdgesStep(r) ==
  \/ EdgesFetch(r)
  \/ EdgesGet(r)
  \/ EdgesCreate(r)
  \/ EdgesConnect(r)

----------------------------------------------------------------------------
(* GET /api/papers/:paperId/graph                                          *)

IsDigit(c) == c \in {"0", "1", "2", "3", "4", "5", "6", "7", "8", "9"}

DigitValue(c) == CHOOSE d \in 0..9 : Digit(d) = c

\* the digits a string starts with
RECURSIVE LeadingDigits(_)
LeadingDigits(str) ==
  IF str = <<>> \/ ~IsDigit(Head(str)) THEN <<>>
  ELSE <<Head(str)>> \o LeadingDigits(Tail(str))

RECURSIVE DigitsValue(_)
DigitsValue(ds) ==
  IF ds = <<>> THEN 0
  ELSE 10 * DigitsValue(SubSeq(ds, 1, Len(ds) - 1)) + DigitValue(ds[Len(ds)])

\* parseInt of a string: an optional sign and the digits that follow it; NaN
\* when there is no digit, as for the string of an absent parameter
parseInt(str) ==
  LET negative == str # <<>> /\ Head(str) = "-"
      signed == str # <<>> /\ Head(str) \in {"-", "+"}
      ds == LeadingDigits(IF signed THEN Tail(str) ELSE str)
  IN  IF ds = <<>> THEN [nan |-> TRUE, value |-> 0]
      ELSE [nan |-> FALSE,
            value |-> IF negative THEN 0 - DigitsValue(ds) ELSE DigitsValue(ds)]

\* line 660: `parseInt(req.query.depth) || 1`
DepthOf(param) ==
  LET n == parseInt(param)
  IN  IF n.nan \/ n.value = 0 THEN 1 ELSE n.value

\* one call of exploreConnections: where it stands, the rows it iterates and
\* the index of the next row
Frame(currentPaperId, currentDepth) ==
  [currentPaperId |-> currentPaperId, currentDepth |-> currentDepth,
   pc |-> "enter", connections |-> <<>>, k |-> 1]

GraphStart(r, paperId, depthParam) ==
  /\ Free(r)
  /\ req' = [req EXCEPT ![r] =
       [kind |-> "graph", pc |-> "run", paperId |-> paperId,
        depth |-> DepthOf(depthParam), visited |-> {}, nodes |-> <<>>,
        links |-> <<>>, stack |-> <<Frame(paperId, 0)>>, looked |-> <<>>,
        attempted |-> {}, rejected |-> "none", status |-> 0,
        rnodes |-> <<>>, rlinks |-> <<>>]]
  /\ UNCHANGED <<storeVars, hashVars, chatVars>>

Top(rec) == rec.stack[Len(rec.stack)]

SetTop(rec, frame) == [rec EXCEPT !.stack[Len(rec.stack)] = frame]

\* a call returns to its caller; the return of the first call is followed
\* by the response of lines 704-707
Return(rec) ==
  LET rest == SubSeq(rec.stack, 1, Len(rec.stack) - 1)
  IN  IF rest = <<>>
        THEN [rec EXCEPT !.stack = rest, !.pc = "done", !.status = 200,
                         !.rnodes = rec.nodes, !.rlinks = rec.links]
        ELSE [rec EXCEPT !.stack = rest]

\* a guard that leaves the visited set out
SkipsByDepthOnly(visited, currentPaperId, currentDepth, depth) ==
  currentDepth > depth

\* line 667: the guard of exploreConnections
Skips(visited, currentPaperId, currentDepth, depth) ==
  currentPaperId \in visited \/ currentDepth > depth

\* lines 667-671: the guard, the mark and the lookup of the paper
GraphVisit(r) ==
  /\ req[r].kind = "graph" /\ req[r].pc = "run"
  /\ Top(req[r]).pc = "enter"
  /\ LET f == Top(req[r])
     IN  req' = [req EXCEPT ![r] =
           IF Skips(req[r].visited, f.currentPaperId, f.currentDepth, req[r].depth)
             THEN Return(req[r])
             ELSE [SetTop(req[r], [f EXCEPT !.pc = "paper"]) EXCEPT
                     !.visited = @ \cup {f.currentPaperId},
                     !.looked = Append(@, f.currentPaperId)]]
  /\ UNCHANGED <<storeVars, hashVars, chatVars>>

\* `paper.authors.map(a => a.name)`
AuthorNames(authors) == [k \in DOMAIN authors |-> authors[k].name]

\* lines 673-680: the node of a stored paper
NodeOf(currentPaperId, paper) ==
  [id |-> currentPaperId, title |-> paper.title,
   authors |-> AuthorNames(paper.authors),
   citationCount |-> paper.citationCount]

\* Map.prototype.set: the value of a key the map holds is replaced in place,
\* a new key goes last
MapSet(nodes, node) ==
  IF \E i \in DOMAIN nodes : nodes[i].id = node.id
    THEN [i \in DOMAIN nodes |-> IF nodes[i].id = node.id THEN node ELSE nodes[i]]
    ELSE Append(nodes, node)

\* lines 671-683: the node of the paper, if it is stored, and the test of
\* the depth
GraphPaper(r) ==
  /\ req[r].kind = "graph" /\ req[r].pc = "run"
  /\ Top(req[r]).pc = "paper"
  /\ LET f == Top(req[r])
         paper == getPaper(papers, f.currentPaperId)
         noted == [req[r] EXCEPT !.nodes =
                     IF paper = {} THEN @
                     ELSE MapSet(@, NodeOf(f.currentPaperId,
                                           CHOOSE x \in paper : TRUE))]
     IN  req' = [req EXCEPT ![r] =
           IF f.currentDepth < req[r].depth
             THEN SetTop(noted, [f EXCEPT !.pc = "conns"])
             ELSE Return(noted)]
  /\ UNCHANGED <<storeVars, hashVars, chatVars>>

\* line 685: the rows of the paper, in an order the backend may give
GraphConnections(r) ==
  /\ req[r].kind = "graph" /\ req[r].pc = "run"
  /\ Top(req[r]).pc = "conns"
  /\ LET f == Top(req[r])
     IN  \E conns \in getPaperConnections(backend, connections, f.currentPaperId) :
           req' = [req EXCEPT ![r] =
             SetTop(req[r], [f EXCEPT !.pc = "loop", !.connections = conns,
                                      !.k = 1])]
  /\ UNCHANGED <<storeVars, hashVars, chatVars>>

\* line 688: the other end of a row
TargetOf(conn, currentPaperId) ==
  IF conn.sourcePaperId = currentPaperId THEN conn.targetPaperId
  ELSE conn.sourcePaperId

\* lines 690-695: the link of a row; `conn.strength || 1`
LinkOf(conn) ==
  [source |-> conn.sourcePaperId, target |-> conn.targetPaperId,
   type |-> conn.connectionType,
   strength |-> IF conn.strength # 0 THEN conn.strength ELSE 1]

\* a recursive call that stays at the depth of its caller
ChildDepthSame(currentDepth) == currentDepth

\* line 697: the depth of the recursive call
ChildDepth(currentDepth) == currentDepth + 1

\* lines 687-698: the link of row k is pushed and the other end of the row
\* is explored; after the last row the call returns
GraphLoop(r) ==
  /\ req[r].kind = "graph" /\ req[r].pc = "run"
  /\ Top(req[r]).pc = "loop"
  /\ LET f == Top(req[r])
     IN  req' = [req EXCEPT ![r] =
           IF f.k > Len(f.connections)
             THEN Return(req[r])
             ELSE LET conn == f.connections[f.k]
                      next == SetTop(req[r], [f EXCEPT !.k = @ + 1])
                  IN  [next EXCEPT
                         !.links = Append(@, LinkOf(conn)),
                         !.stack = Append(@, Frame(TargetOf(conn, f.currentPaperId),
                                                   ChildDepth(f.currentDepth)))]]
  /\ UNCHANGED <<storeVars, hashVars, chatVars>>

GraphStep(r) ==
  \/ GraphVisit(r)
  \/ GraphPaper(r)
  \/ GraphConnections(r)
  \/ GraphLoop(r)

----------------------------------------------------------------------------
(* The paper chat: POST /api/chat/session/:sessionId/message and           *)
(* GET /api/chat/session/:sessionId/messages, both behind requireAuth.     *)

\* getChatSession: the row of a session id, if any
getChatSession(sessions, sessionId) ==
  IF sessionId \in DOMAIN sessions THEN {sessions[sessionId]} ELSE {}

\* addChatMessage: one more row
addChatMessage(messages, message) == Append(messages, message)

\* the positions of the rows of a session, in creation order
RECURSIVE SessionRows(_, _)
SessionRows(messages, sessionId) ==
  IF messages = <<>> THEN <<>>
  ELSE LET n == Len(messages)
           before == SessionRows(SubSeq(messages, 1, n - 1), sessionId)
       IN  IF messages[n].sessionId = sessionId THEN Append(before, n) ELSE before

\* getChatMessages: the rows of a session ordered by createdAt
getChatMessages(messages, sessionId) ==
  LET rows == SessionRows(messages, sessionId)
  IN  [k \in DOMAIN rows |-> messages[rows[k]]]

\* a lookup that takes a null credential for a credential
getUserApiKeyUnchecked(table, userId) ==
  IF userId \in DOMAIN table
    THEN {[apiKey |-> table[userId].openaiApiKey]}
    ELSE {}

\* getUserApiKey: the stored credential of a user, {} for null
getUserApiKey(table, userId) ==
  IF userId \in DOMAIN table /\ table[userId].openaiApiKey # "null"
    THEN {[apiKey |-> table[userId].openaiApiKey]}
    ELSE {}

\* a request that a middleware or a handler answers on arrival
Arrival(kind, authHeader, code) ==
  [kind |-> kind, pc |-> "done", authorization |-> authHeader,
   userId |-> AbsentNum, status |-> code, attempted |-> {},
   rejected |-> "none", nFetch |-> 0, userRow |-> 0, assistantRow |-> 0,
   historyRows |-> <<>>, history |-> <<>>, sent |-> <<>>, replied |-> FALSE, error |-> "", rmessages |-> <<>>,
   sessionId |-> 0, content |-> <<>>, paper |-> {}]

\* lines 207-215: requireAuth, then the test of the content
ChatPostStart(r, authHeader, sessionParam, content) ==
  /\ Free(r)
  /\ LET auth == requireAuth(authHeader)
         arrived == [Arrival("chatpost", authHeader, 0) EXCEPT
                       !.pc = "session", !.userId = auth.userId,
                       !.sessionId = parseInt(sessionParam).value,
                       !.content = content]
     IN  req' = [req EXCEPT ![r] =
           IF auth.status # 0
             THEN Arrival("chatpost", authHeader, auth.status)
             ELSE IF ~TruthyStr(content)
                    THEN [arrived EXCEPT !.pc = "done", !.status = 400]
                    ELSE arrived]
  /\ UNCHANGED <<storeVars, hashVars, chatVars>>

\* a test that accepts the session of any user
NotOwnedMissingOnly(session, userId) == session = {}

\* `!session || session.userId !== userId`
NotOwned(session, userId) ==
  session = {} \/ (CHOOSE x \in session : TRUE).userId # userId

\* lines 218-221: the session must be the caller's
ChatPostSession(r) ==
  /\ req[r].kind = "chatpost" /\ req[r].pc = "session"
  /\ req' = [req EXCEPT ![r] =
       IF NotOwned(getChatSession(chatSessions, req[r].sessionId), req[r].userId)
         THEN Fail(r, 404)
         ELSE [req[r] EXCEPT !.pc = "paper"]]
  /\ UNCHANGED <<storeVars, hashVars, chatVars>>

\* lines 224-227: the paper of the session must be stored
ChatPostPaper(r) ==
  /\ req[r].kind = "chatpost" /\ req[r].pc = "paper"
  /\ LET session == getChatSession(chatSessions, req[r].sessionId)
         paper == IF session = {} THEN {}
                  ELSE getPaper(papers, (CHOOSE x \in session : TRUE).paperId)
     IN  req' = [req EXCEPT ![r] =
           IF paper = {} THEN Fail(r, 404)
           ELSE [req[r] EXCEPT !.pc = "adduser", !.paper = paper]]
  /\ UNCHANGED <<storeVars, hashVars, chatVars>>

\* lines 230-234: the user's message is stored
ChatPostAddUser(r) ==
  /\ req[r].kind = "chatpost" /\ req[r].pc = "adduser"
  /\ chatMessages' = addChatMessage(chatMessages,
       [sessionId |-> req[r].sessionId, role |-> "user",
        content |-> req[r].content])
  /\ req' = [req EXCEPT ![r].pc = "history",
                        ![r].userRow = Len(chatMessages) + 1]
  /\ UNCHANGED <<storeVars, hashVars, users, chatSessions>>

\* lines 238-241: the role and the content of a row
TurnOf(message) == [role |-> message.role, content |-> message.content]

\* lines 237-241: the rows of the session are read back
ChatPostHistory(r) ==
  /\ req[r].kind = "chatpost" /\ req[r].pc = "history"
  /\ LET messages == getChatMessages(chatMessages, req[r].sessionId)
     IN  req' = [req EXCEPT
           ![r].pc = "key",
           ![r].historyRows = SessionRows(chatMessages, req[r].sessionId),
           ![r].history = [k \in DOMAIN messages |-> TurnOf(messages[k])]]
  /\ UNCHANGED <<storeVars, hashVars, chatVars>>

\* openai.ts lines 13-17: without a stored credential generatePaperChat
\* throws, and the catch of line 254 answers 500 with the message
ChatPostKey(r) ==
  /\ req[r].kind = "chatpost" /\ req[r].pc = "key"
  /\ req' = [req EXCEPT ![r] =
       IF getUserApiKey(users, req[r].userId) = {}
         THEN [Fail(r, 500) EXCEPT !.error = "OpenAI API key not configured"]
         ELSE [req[r] EXCEPT !.pc = "complete"]]
  /\ UNCHANGED <<storeVars, hashVars, chatVars>>

\* openai.ts lines 19-35: the system prompt, made of the paper
SystemMessage(paper) ==
  [role |-> "system", content |-> <<(CHOOSE x \in paper : TRUE).title>>]

\* openai.ts lines 45-48: the messages of the completion request
CompletionMessages(paper, messages) == <<SystemMessage(paper)>> \o messages

\* the reply of the completion endpoint
COMPLETION == <<"reply">>

\* a handler that goes on to store a reply after a failed completion
CompletionFailedStoresReply(called, message) ==
  [called EXCEPT !.pc = "addassistant"]

\* openai.ts lines 54-57 and the catch of lines 254-257: the error of the
\* completion call is answered as a 500 with its message
CompletionFailed(called, message) ==
  [called EXCEPT !.pc = "done", !.status = 500, !.error = message]

\* openai.ts lines 37-60: the completion call; a non-success status and a
\* failed call are thrown to the catch of line 254
ChatPostComplete(r) ==
  /\ req[r].kind = "chatpost" /\ req[r].pc = "complete"
  /\ LET called == [req[r] EXCEPT
                      !.nFetch = @ + 1,
                      !.sent = CompletionMessages(req[r].paper, req[r].history)]
     IN  \/ req' = [req EXCEPT ![r] =
              [called EXCEPT !.pc = "addassistant", !.replied = TRUE]]
         \/ req' = [req EXCEPT ![r] = CompletionFailed(called, "OpenAI API error")]
         \/ req' = [req EXCEPT ![r] = CompletionFailed(called, "fetch failed")]
  /\ UNCHANGED <<storeVars, hashVars, chatVars>>

\* lines 247-253: the reply is stored and answered
ChatPostAddAssistant(r) ==
  /\ req[r].kind = "chatpost" /\ req[r].pc = "addassistant"
  /\ chatMessages' = addChatMessage(chatMessages,
       [sessionId |-> req[r].sessionId, role |-> "assistant",
        content |-> COMPLETION])
  /\ req' = [req EXCEPT ![r].pc = "done", ![r].status = 200,
                        ![r].assistantRow = Len(chatMessages) + 1,
                        ![r].rmessages = <<chatMessages'[Len(chatMessages) + 1]>>]
  /\ UNCHANGED <<storeVars, hashVars, users, chatSessions>>

ChatPostStep(r) ==
  \/ ChatPostSession(r)
  \/ ChatPostPaper(r)
  \/ ChatPostAddUser(r)
  \/ ChatPostHistory(r)
  \/ ChatPostKey(r)
  \/ ChatPostComplete(r)
  \/ ChatPostAddAssistant(r)

\* lines 188-191: requireAuth on the read of a session
ChatReadStart(r, authHeader, sessionParam) ==
  /\ Free(r)
  /\ LET auth == requireAuth(authHeader)
     IN  req' = [req EXCEPT ![r] =
           IF auth.status # 0
             THEN Arrival("chatread", authHeader, auth.status)
             ELSE [Arrival("chatread", authHeader, 0) EXCEPT
                     !.pc = "session", !.userId = auth.userId,
                     !.sessionId = parseInt(sessionParam).value]]
  /\ UNCHANGED <<storeVars, hashVars, chatVars>>

\* lines 194-197
ChatReadSession(r) ==
  /\ req[r].kind = "chatread" /\ req[r].pc = "session"
  /\ req' = [req EXCEPT ![r] =
       IF NotOwned(getChatSession(chatSessions, req[r].sessionId), req[r].userId)
         THEN Fail(r, 404)
         ELSE [req[r] EXCEPT !.pc = "messages"]]
  /\ UNCHANGED <<storeVars, hashVars, chatVars>>

\* lines 199-200
ChatReadMessages(r) ==
  /\ req[r].kind = "chatread" /\ req[r].pc = "messages"
  /\ req' = [req EXCEPT ![r].pc = "done", ![r].status = 200,
                        ![r].rmessages = getChatMessages(chatMessages,
                                                         req[r].sessionId)]
  /\ UNCHANGED <<storeVars, hashVars, chatVars>>

ChatReadStep(r) ==
  \/ ChatReadSession(r)
  \/ ChatReadMessages(r)

----------------------------------------------------------------------------
(* The clock and the cache sweep.                                          *)

Tick ==
  /\ now < MaxTime
  /\ now' = now + 1
  /\ UNCHANGED <<backend, papers, connections, searchCache, searchQueries, req,
                 hashVars, chatVars>>

\* POST /api/cache/clear
CacheClear ==
  /\ searchCache' = clearExpiredCache(searchCache, now)
  /\ UNCHANGED <<backend, papers, connections, searchQueries, now, req, hashVars, chatVars>>

----------------------------------------------------------------------------
(* Specifications.                                                         *)

\* the Authorization headers of the searches: none, or the token of the
\* first user
SearchHeaders == {AbsentStr, Bearer(generateToken(1))}

NoPapers == [p \in {} |-> p]

\* nobody registered, no chat session, no chat message
NoChat ==
  /\ users = [u \in {} |-> u]
  /\ chatSessions = <<>>
  /\ chatMessages = <<>>

\* the state after construction: empty tables, no request
StoreInit ==
  /\ backend \in Backends
  /\ papers = NoPapers
  /\ connections = <<>>
  /\ searchCache = {}
  /\ searchQueries = <<>>
  /\ now = 0
  /\ NoChat

HashIdle ==
  /\ hArgs = <<[query |-> <<"a">>, field |-> AbsentStr, year |-> AbsentNum,
                minCitations |-> AbsentNum],
               [query |-> <<"a">>, field |-> AbsentStr, year |-> AbsentNum,
                minCitations |-> AbsentNum]>>
  /\ hKeys = <<HashOf(hArgs[1]), HashOf(hArgs[2])>>

\* the search bodies the clients send
SearchBodies ==
  [query : {<<"a">>}, queryType : {"string"}, field : {AbsentStr}, year : {AbsentNum},
   minCitations : {AbsentNum}, offset : {AbsentNum, 1},
   limit : {AbsentNum, 0, 1, 2}]
  \cup
  [query : {<<"b">>}, queryType : {"string"}, field : {AbsentStr}, year : {AbsentNum},
   minCitations : {AbsentNum}, offset : {AbsentNum}, limit : {AbsentNum}]

\* bodies whose query is missing, empty, or a number
InvalidBodies ==
  [query : {AbsentStr}, queryType : {"undefined"}, field : {AbsentStr},
   year : {AbsentNum}, minCitations : {AbsentNum}, offset : {AbsentNum},
   limit : {AbsentNum}]
  \cup
  [query : {<<>>}, queryType : {"string"}, field : {AbsentStr},
   year : {AbsentNum}, minCitations : {AbsentNum}, offset : {AbsentNum},
   limit : {AbsentNum}]
  \cup
  [query : {<<"7">>}, queryType : {"number"}, field : {AbsentStr},
   year : {AbsentNum}, minCitations : {AbsentNum}, offset : {AbsentNum},
   limit : {AbsentNum}]

SearchStep(r) ==
  \/ SearchLookup(r)
  \/ SearchHistory(r)
  \/ SearchFetch(r)
  \/ SearchSave(r)
  \/ SearchLoop(r)
  \/ SearchEnrich(r)
  \/ SearchCreate(r)
  \/ SearchHistory2(r)

\* the key function alone
HashInit == HashIdle /\ StoreInit /\ req = [r \in Reqs |-> Idle]

HashNext == \E k \in {1, 2} : HashOne(k)

HashSpec == HashInit /\ [][HashNext]_vars

\* anonymous searches one after the other, the clock and the sweep
CacheInit ==
  StoreInit /\ backend = "db" /\ HashIdle /\ req = [r \in Reqs |-> Idle]

\* the searches the clients send: every body from a client that is not
\* signed in, and query b from the signed-in user
SearchInputs ==
  {<<body, AbsentStr>> : body \in SearchBodies}
  \cup {<<body, Bearer(generateToken(1))>> :
          body \in {b \in SearchBodies : b.query = <<"b">>}}

CacheNext ==
  \/ \E input \in SearchInputs : SearchStart(1, input[1], input[2])
  \/ \E r \in Reqs : SearchStep(r)
  \/ Tick
  \/ CacheClear

CacheSpec == CacheInit /\ [][CacheNext]_vars

\* searches one after another at one instant, the invalid ones among them
SearchNext ==
  \/ \E input \in SearchInputs \cup (InvalidBodies \X SearchHeaders) :
       SearchStart(1, input[1], input[2])
  \/ \E r \in Reqs : SearchStep(r)

SearchSpec == CacheInit /\ [][SearchNext]_vars

\* the requests that write papers and connections, overlapping, on every
\* storage class
UpsertBodies ==
  [query : {<<"a">>}, queryType : {"string"}, field : {AbsentStr}, year : {AbsentNum},
   minCitations : {AbsentNum}, offset : {AbsentNum}, limit : {1}]

EdgeLimits == {AbsentNum}

Init ==
  StoreInit /\ HashIdle /\ req = [r \in Reqs |-> Idle]

\* the depth parameters of the graph requests: none, 0, 1, 2 and -1
DepthParams == {AbsentStr, <<"0">>, <<"1">>, <<"2">>, <<"-", "1">>}

\* the root the graph is asked for
GraphRoots == {"P1"}

\* a paper table that holds the papers of S, as the detail endpoint stores
\* them
TableOf(S) == [p \in S |-> DetailInsert(ProviderPaper(p))]

\* the rows a connections table can hold, self-loops included
ConnectionRows ==
  [sourcePaperId : PaperIds, targetPaperId : PaperIds,
   connectionType : {"citation"}, strength : {1}]

ConnectionTables ==
  UNION {[1..n -> ConnectionRows] : n \in 0..MaxEdges}

\* the paper tables of the traversal: every subset of the papers stored, the
\* root among them or not
GraphTables == {TableOf(S) : S \in SUBSET PaperIds}

\* the traversal runs over tables that no other request writes meanwhile
GraphInitOver(tables) ==
  /\ backend \in Backends
  /\ papers \in tables
  /\ connections \in ConnectionTables
  /\ searchCache = {}
  /\ searchQueries = <<>>
  /\ now = 0
  /\ NoChat
  /\ HashIdle
  /\ req = [r \in Reqs |-> Idle]

GraphInit == GraphInitOver(GraphTables)

GraphNext ==
  \/ \E p \in GraphRoots : \E d \in DepthParams : GraphStart(1, p, d)
  \/ GraphStep(1)

GraphSpec == GraphInit /\ [][GraphNext]_vars

\* the calls of exploreConnections do not branch on the paper lookup, so
\* the runs over no stored paper and over every paper stored have the calls
\* of the runs over every table
GraphFairInit == GraphInitOver({TableOf({}), TableOf(PaperIds)})

\* the event loop runs every continuation of a handler that is ready
GraphFairSpec ==
  GraphFairInit /\ [][GraphNext]_vars /\ WF_vars(GraphStep(1))

\* four stored papers and four rows: P4 is two rows from P1 through P3, and
\* P3 is one row from P1 directly and two rows from it through P2
DeepRows ==
  {[sourcePaperId |-> e[1], targetPaperId |-> e[2],
    connectionType |-> "citation", strength |-> 1] :
     e \in {<<"P1", "P2">>, <<"P2", "P3">>, <<"P1", "P3">>, <<"P3", "P4">>}}

\* the four rows inserted in any order
DeepInit ==
  /\ backend \in Backends
  /\ papers = TableOf(PaperIds \cup {"P4"})
  /\ connections \in {t \in [1..4 -> DeepRows] :
                        \A i, j \in 1..4 : i # j => t[i] # t[j]}
  /\ searchCache = {}
  /\ searchQueries = <<>>
  /\ now = 0
  /\ NoChat
  /\ HashIdle
  /\ req = [r \in Reqs |-> Idle]

DeepSpec == DeepInit /\ [][GraphNext]_vars

\* every connection carries one request: a slot that has answered stays as
\* it is, so that the answers of both requests can be compared
Unused(r) == req[r].kind = "idle"

\* the session ids, the contents and the credentials of the chat requests
SessionParams == {<<"1">>, <<"2">>, <<"3">>}

Contents == {AbsentStr, <<"q">>}

ApiKeys == {"null", "key"}

\* two registered users, the first with or without a stored credential, a
\* session of each, the first on a stored paper and the second on a paper
\* that is stored or not; P1 is not stored, and a search finds it
ApiInit ==
  /\ backend = "db"
  /\ papers \in {TableOf({"P2"}), TableOf({"P2", "P3"})}
  /\ connections = <<>>
  /\ searchCache = {}
  /\ searchQueries = <<>>
  /\ now = 0
  /\ users \in {[u \in {1, 2} |-> [openaiApiKey |-> IF u = 1 THEN k ELSE "key"]] :
                  k \in ApiKeys}
  /\ chatSessions = <<[userId |-> 1, paperId |-> "P2"],
                      [userId |-> 2, paperId |-> "P3"]>>
  /\ chatMessages = <<>>
  /\ HashIdle
  /\ req = [r \in Reqs |-> Idle]

\* the search bodies of the requests that come with a header: the first
\* result of query a, and the invalid bodies
ApiBodies ==
  {b \in SearchBodies : b.query = <<"a">> /\ b.offset = AbsentNum /\ b.limit = 1}
  \cup InvalidBodies

\* the connections are alike and each carries one request; they are taken
\* in their order
NextConn(r) == Unused(r) /\ \A q \in 1..(r - 1) : ~Unused(q)

\* the chat endpoints
ChatNext ==
  \/ \E r \in Reqs : \E authHeader \in Headers : \E sessionParam \in SessionParams :
       \E content \in Contents :
         NextConn(r) /\ ChatPostStart(r, authHeader, sessionParam, content)
  \/ \E r \in Reqs : ChatPostStep(r)
  \/ \E r \in Reqs : \E authHeader \in Headers : \E sessionParam \in SessionParams :
       NextConn(r) /\ ChatReadStart(r, authHeader, sessionParam)
  \/ \E r \in Reqs : ChatReadStep(r)

ChatSpec == ApiInit /\ [][ChatNext]_vars

\* the search bodies that pass the validation
ValidBodies == ApiBodies \ InvalidBodies

\* the routes behind requireAuth, asked for the first session under every
\* header, and the search route behind optionalAuth, one request after
\* another while the session has room for the two rows of a post
AuthNext ==
  \/ \E authHeader \in Headers :
       /\ Len(chatMessages) + 2 <= MaxMessages
       /\ ChatPostStart(1, authHeader, <<"1">>, <<"q">>)
  \/ \E r \in Reqs : ChatPostStep(r)
  \/ \E authHeader \in Headers : ChatReadStart(1, authHeader, <<"1">>)
  \/ \E r \in Reqs : ChatReadStep(r)
  \/ \E body \in ValidBodies : \E authHeader \in Headers :
       SearchStart(1, body, authHeader)
  \/ \E r \in Reqs : SearchStep(r)

AuthSpec == ApiInit /\ [][AuthNext]_vars

\* every endpoint
ApiNext ==
  \/ \E r \in Reqs : \E authHeader \in Headers : \E sessionParam \in SessionParams :
       \E content \in Contents :
         NextConn(r) /\ ChatPostStart(r, authHeader, sessionParam, content)
  \/ \E r \in Reqs : ChatPostStep(r)
  \/ \E r \in Reqs : \E authHeader \in Headers : \E sessionParam \in SessionParams :
       NextConn(r) /\ ChatReadStart(r, authHeader, sessionParam)
  \/ \E r \in Reqs : ChatReadStep(r)
  \/ \E r \in Reqs : \E body \in ApiBodies : \E authHeader \in Headers :
       NextConn(r) /\ SearchStart(r, body, authHeader)
  \/ \E r \in Reqs : SearchStep(r)
  \/ \E r \in Reqs : \E id \in DetailIds : NextConn(r) /\ DetailStart(r, id)
  \/ \E r \in Reqs : DetailStep(r)
  \/ \E r \in Reqs : \E kind \in {"citations", "references"} :
       \E p \in PaperIds : \E limit \in EdgeLimits :
         NextConn(r) /\ EdgesStart(r, kind, p, limit)
  \/ \E r \in Reqs : EdgesStep(r)

ApiSpec == ApiInit /\ [][ApiNext]_vars

\* searches for one key that overlap, each on its own connection; the clock
\* advances between the bursts
MissNext ==
  \/ \E r \in Reqs : \E body \in UpsertBodies : \E authHeader \in SearchHeaders :
       NextConn(r) /\ SearchStart(r, body, authHeader)
  \/ \E r \in Reqs : SearchStep(r)
  \/ (\A r \in Reqs : Unused(r) \/ Free(r)) /\ Tick

MissSpec == CacheInit /\ [][MissNext]_vars

\* searches for the first page of query a, of one paper or of two, that
\* overlap and follow one another on two connections
ServeBodies ==
  {body \in SearchBodies : /\ body.query = <<"a">> /\ body.offset = AbsentNum
                           /\ body.limit \in {1, 2}}

ServeNext ==
  \/ \E r \in Reqs : \E body \in ServeBodies : \E authHeader \in SearchHeaders :
       SearchStart(r, body, authHeader)
  \/ \E r \in Reqs : SearchStep(r)

ServeSpec == CacheInit /\ [][ServeNext]_vars

----------------------------------------------------------------------------
(* The search history: GET /api/search/history behind requireAuth and      *)
(* GET /api/searches/recent without a middleware.                          *)

DEFAULT_RECENT_LIMIT == 10

\* `parseInt(req.query.limit as string) || 10`
RecentLimitOf(param) ==
  LET n == parseInt(param)
  IN  IF n.nan \/ n.value = 0 THEN DEFAULT_RECENT_LIMIT ELSE n.value

\* orderBy(desc(createdAt)): the rows from the latest to the earliest
Latest(rows) == [i \in 1..Len(rows) |-> rows[Len(rows) + 1 - i]]

\* where(eq(searchQueries.userId, userId)): the rows of a user, in their order
RECURSIVE OwnedBy(_, _)
OwnedBy(rows, userId) ==
  IF rows = <<>> THEN <<>>
  ELSE IF Head(rows).userId = userId
         THEN <<Head(rows)>> \o OwnedBy(Tail(rows), userId)
         ELSE OwnedBy(Tail(rows), userId)

\* getRecentSearches called with the positional arguments first and second
\* (AbsentNum for an argument the caller leaves out). Both DatabaseStorage
\* classes declare (userId?, limit = 10) and filter by a truthy userId;
\* MemStorage declares (limit = 10) and returns the latest rows of all users.
getRecentSearches(b, rows, first, second) ==
  IF b = "mem"
    THEN Slice(Latest(rows), 0,
               IF first = AbsentNum THEN DEFAULT_RECENT_LIMIT ELSE first)
    ELSE LET limit == IF second = AbsentNum THEN DEFAULT_RECENT_LIMIT ELSE second
         IN  IF TruthyNum(first)
               THEN Slice(Latest(OwnedBy(rows, first)), 0, limit)
               ELSE Slice(Latest(rows), 0, limit)

\* what a history request leaves in its slot
HistoryAnswer(kind, authHeader, userId, status, searches) ==
  [kind |-> kind, pc |-> "done", authorization |-> authHeader,
   userId |-> userId, status |-> status, rsearches |-> searches,
   attempted |-> {}, rejected |-> "none"]

\* GET /api/search/history?limit=: requireAuth, then the rows of req.userId
SearchHistoryGet(r, authHeader, limitParam) ==
  /\ Free(r)
  /\ LET auth == requireAuth(authHeader)
     IN  req' = [req EXCEPT ![r] =
           IF auth.status # 0
             THEN HistoryAnswer("history", authHeader, AbsentNum, auth.status, <<>>)
             ELSE HistoryAnswer("history", authHeader, auth.userId, 200,
                    getRecentSearches(backend, searchQueries, auth.userId,
                                      RecentLimitOf(limitParam)))]
  /\ UNCHANGED <<storeVars, hashVars, chatVars>>

\* GET /api/searches/recent?limit=: no middleware; the parsed limit is the
\* only argument of the call
RecentSearches(r, limitParam) ==
  /\ Free(r)
  /\ req' = [req EXCEPT ![r] =
       HistoryAnswer("recent", AbsentStr, AbsentNum, 200,
         getRecentSearches(backend, searchQueries, RecentLimitOf(limitParam),
                           AbsentNum))]
  /\ UNCHANGED <<storeVars, hashVars, chatVars>>

\* the limit parameters of the history requests: none, 1 and 2
LimitParams == {AbsentStr, <<"1">>, <<"2">>}

\* searches of the signed-in users and reads of the history, one after
\* another, on every storage class
HistoryNext ==
  \/ \E body \in UpsertBodies : \E u \in {1, 2} :
       SearchStart(1, body, Bearer(generateToken(u)))
  \/ SearchStep(1)
  \/ \E authHeader \in Headers : \E limitParam \in LimitParams :
       SearchHistoryGet(1, authHeader, limitParam)
  \/ \E limitParam \in LimitParams : RecentSearches(1, limitParam)

HistorySpec == Init /\ [][HistoryNext]_vars

\* citation and reference lookups one after another, on every storage class
EdgeNext ==
  \/ \E kind \in {"citations", "references"} : \E p \in PaperIds :
       \E limit \in EdgeLimits : EdgesStart(1, kind, p, limit)
  \/ \E r \in Reqs : EdgesStep(r)

EdgeSpec == Init /\ [][EdgeNext]_vars

Next ==
  \/ \E r \in Reqs : \E body \in UpsertBodies : \E authHeader \in SearchHeaders :
       Unused(r) /\ SearchStart(r, body, authHeader)
  \/ \E r \in Reqs : SearchStep(r)
  \/ \E r \in Reqs : \E id \in DetailIds : Unused(r) /\ DetailStart(r, id)
  \/ \E r \in Reqs : DetailStep(r)
  \/ \E r \in Reqs : \E kind \in {"citations", "references"} :
       \E p \in PaperIds : \E limit \in EdgeLimits :
         Unused(r) /\ EdgesStart(r, kind, p, limit)
  \/ \E r \in Reqs : EdgesStep(r)

Spec == Init /\ [][Next]_vars

----------------------------------------------------------------------------
(* Properties of the result cache.                                         *)

SearchReqs == {r \in Reqs : req[r].kind = "search"}

KeyOf(body) ==
  generateCacheHash(body.query, body.field, body.year, body.minCitations)

\* the elements of arr at the positions o+1 .. o+l that exist
Window(arr, o, l) ==
  [k \in 1..(Min(o + l, Len(arr)) - Min(o, Len(arr))) |-> arr[o + k]]

\* a search answered from the cache was answered from the row it matched,
\* and that row had not expired when it was looked up
HitsAreFresh ==
  \A r \in SearchReqs :
    req[r].cached =>
      \E row \in req[r].matchedRow :
        /\ row.queryHash = KeyOf(req[r].body)
        /\ req[r].lookupAt <= row.expiresAt
        /\ req[r].rtotal = row.total

\* what a lookup does with the entry of its key: past the expiration it
\* removes the entry and the search goes on as a miss; up to the expiration
\* the entry stays and its results and total are what the search answers
LookupStep ==
  \A r \in SearchReqs :
    (req[r].pc = "lookup" /\ req'[r].pc # "lookup") =>
      \A row \in CacheMatches(searchCache, KeyOf(req[r].body)) :
        IF now > row.expiresAt
          THEN /\ row \notin searchCache'
               /\ ~req'[r].cached
               /\ req'[r].pc \in {"history", "fetch"}
          ELSE /\ row \in searchCache'
               /\ req'[r].cached
               /\ req'[r].pc = "done"
               /\ req'[r].rtotal = row.total
               /\ req'[r].rpapers =
                    Window(row.results, OffsetOf(req[r].body), LimitOf(req[r].body))

\* C1: a lookup after an entry's expiration returns absent and removes the
\* entry, a lookup up to the expiration returns the stored results and
\* total, and no search is answered cached:true from an expired entry
C1_CacheFreshness == []HitsAreFresh /\ [][LookupStep]_vars

\* a lookup found an expired entry, removed it and went on to the provider
C1_Witness ==
  \E r \in SearchReqs :
    /\ req[r].pc = "fetch"
    /\ \E row \in req[r].matchedRow :
         row.expiresAt < req[r].lookupAt /\ row \notin searchCache

\* C3: a cache hit answers with results[o .. o+l) clamped to the array, the
\* entry's total and the requested offset
C3_HitPagination ==
  \A r \in SearchReqs :
    req[r].cached =>
      \E row \in req[r].matchedRow :
        /\ req[r].rpapers =
             Window(row.results, OffsetOf(req[r].body), LimitOf(req[r].body))
        /\ req[r].rtotal = row.total
        /\ req[r].roffset = OffsetOf(req[r].body)

\* a hit at offset 1 whose window runs past the end of the cached array
C3_Witness ==
  \E r \in SearchReqs :
    /\ req[r].cached
    /\ OffsetOf(req[r].body) = 1
    /\ \E row \in req[r].matchedRow :
         /\ Len(row.results) = 2
         /\ 1 + LimitOf(req[r].body) > 2
         /\ Len(req[r].rpapers) = 1

\* C4: the papers of a cache hit for (o, l) are the papers the provider
\* returns for (o, l)
C4_HitEqualsProvider ==
  \A r \in SearchReqs :
    req[r].cached =>
      req[r].rpapers =
        ProviderSearch(req[r].body.query, OffsetOf(req[r].body),
                       LimitOf(req[r].body)).data

\* C5: a miss makes one external fetch and one cache store, and the same
\* search repeated before the entry expires makes no fetch and is answered
\* cached:true with the same papers
C5_MissThenHit ==
  \A r \in SearchReqs :
    req[r].pc = "done" =>
      /\ (req[r].status = 200 /\ ~req[r].cached) =>
           (req[r].nFetch = 1 /\ req[r].nStore = 1)
      /\ \A first \in req[r].prior :
           (/\ first.status = 200
            /\ ~first.cached
            /\ req[r].lookupAt <= first.expiresAt) =>
             /\ req[r].cached
             /\ req[r].nFetch = 0
             /\ req[r].rpapers = first.papers

----------------------------------------------------------------------------
(* Properties of the cache key.                                            *)

\* the filters in which two argument tuples differ
DifferingFilters(a, b) ==
  {f \in {"field", "year", "minCitations"} : a[f] # b[f]}

\* a filter value the key renders as the empty string: undefined, 0 or ''
RendersEmpty(f, v) == IF f = "field" THEN ~TruthyStr(v) ELSE ~TruthyNum(v)

\* C2 as claimed: identical arguments give one key, and arguments that
\* differ in exactly one filter value give different keys, an absent filter
\* against 0 or the empty string included
C2_KeyInjective ==
  /\ hArgs[1] = hArgs[2] => hKeys[1] = hKeys[2]
  /\ (/\ hArgs[1].query = hArgs[2].query
      /\ Cardinality(DifferingFilters(hArgs[1], hArgs[2])) = 1)
       => hKeys[1] # hKeys[2]

\* C2 as amended: identical arguments give one key, and arguments that
\* differ in exactly one filter value give different keys unless both values
\* of that filter are among undefined, 0 and the empty string
C2_KeyInjectiveUnlessEmpty ==
  /\ hArgs[1] = hArgs[2] => hKeys[1] = hKeys[2]
  /\ \A f \in {"field", "year", "minCitations"} :
       (/\ hArgs[1].query = hArgs[2].query
        /\ DifferingFilters(hArgs[1], hArgs[2]) = {f}
        /\ ~(RendersEmpty(f, hArgs[1][f]) /\ RendersEmpty(f, hArgs[2][f])))
         => hKeys[1] # hKeys[2]

\* two lookups that differ in the minimum-citation filter alone, absent in
\* one and 5 in the other, and whose keys differ
C2_Witness ==
  /\ hArgs[1].query = hArgs[2].query
  /\ DifferingFilters(hArgs[1], hArgs[2]) = {"minCitations"}
  /\ hArgs[1].minCitations = AbsentNum
  /\ hArgs[2].minCitations = 5
  /\ hKeys[1] # hKeys[2]

----------------------------------------------------------------------------
(* The paper table under overlapping requests.                             *)

\* a step that leaves every stored record as it is
RecordsKept ==
  \A p \in DOMAIN papers : p \in DOMAIN papers' /\ papers'[p] = papers[p]

\* C6: a record, once stored under a paperId, is never replaced or changed
\* by a later request
C6_FirstWriteWins == [][RecordsKept]_vars

\* request r looked paperId up, found no record and went on to insert it
FoundAbsent(r, paperId) ==
  /\ paperId \in req[r].attempted
  /\ req[r].kind = "detail" => req[r].paperId = paperId

\* C7: when two requests both found a paperId absent and both inserted it,
\* neither is answered with an error and the paperId is stored
C7_BenignRace ==
  \A r1, r2 \in Reqs : \A p \in PaperIds :
    (/\ r1 # r2
     /\ req[r1].pc = "done" /\ req[r2].pc = "done"
     /\ FoundAbsent(r1, p) /\ FoundAbsent(r2, p))
      => /\ req[r1].status = 200 /\ req[r2].status = 200
         /\ hasPaper(papers, p)

----------------------------------------------------------------------------
(* The graph traversal.                                                    *)

GraphReqs == {r \in Reqs : req[r].kind = "graph"}

NoDuplicates(seq) == \A i, j \in DOMAIN seq : i # j => seq[i] # seq[j]

\* no paperId is marked visited and looked up twice by one traversal
LookedOnce == \A r \in GraphReqs : NoDuplicates(req[r].looked)

Running == req[1].kind = "graph" /\ req[1].pc = "run"

Answered == req[1].kind = "graph" /\ req[1].pc = "done"

\* C8: over every connections table, cycles and self-loops included, and
\* for every depth, the traversal comes to its response, and it marks and
\* looks up each paperId at most once
C8_GraphTerminates == []LookedOnce /\ (Running ~> Answered)

\* a traversal to depth 2 has answered over a table that holds the cycle of
\* P1 -> P2 and P2 -> P1, having followed both rows from both ends
C8_Witness ==
  /\ Answered
  /\ req[1].depth = 2
  /\ \E i, j \in DOMAIN connections :
       /\ connections[i].sourcePaperId = "P1" /\ connections[i].targetPaperId = "P2"
       /\ connections[j].sourcePaperId = "P2" /\ connections[j].targetPaperId = "P1"
  /\ Len(req[1].rlinks) = 4
  /\ req[1].looked = <<"P1", "P2">>

\* the papers one row away from a paper of S, whichever way the row points
Neighbours(S) ==
  {connections[i].targetPaperId :
     i \in {x \in DOMAIN connections : connections[x].sourcePaperId \in S}}
  \cup
  {connections[i].sourcePaperId :
     i \in {x \in DOMAIN connections : connections[x].targetPaperId \in S}}

\* the papers at most n rows away from root
RECURSIVE Within(_, _)
Within(root, n) ==
  IF n < 0 THEN {}
  ELSE IF n = 0 THEN {root}
  ELSE Within(root, n - 1) \cup Neighbours(Within(root, n - 1))

NodeIds(nodes) == {nodes[i].id : i \in DOMAIN nodes}

\* C9: every node of the traversal is at most depth rows away from the
\* root, the rows taken as undirected
C9_DepthBound ==
  \A r \in GraphReqs :
    NodeIds(req[r].nodes) \subseteq Within(req[r].paperId, req[r].depth)

\* a traversal to depth 1 over the chain P1 - P2 - P3 of stored papers has
\* answered with P1 and P2 and without P3, which is two rows away
C9_Witness ==
  /\ Answered
  /\ req[1].depth = 1
  /\ DOMAIN papers = PaperIds
  /\ "P3" \in Within("P1", 2) \ Within("P1", 1)
  /\ NodeIds(req[1].rnodes) = {"P1", "P2"}

\* how many entries of seq are v
Count(seq, v) == Cardinality({i \in DOMAIN seq : seq[i] = v})

\* the links of the rows that touch root
RootLinks(root) ==
  LET at == TouchingEither(connections, root)
      order == CHOOSE o \in Orders(at) : TRUE
  IN  [i \in DOMAIN order |-> LinkOf(connections[order[i]])]

\* C10: for a stored root and depth 1 the nodes are the root and the stored
\* papers one row away from it, and the links are the rows that touch the
\* root, one link for each row
C10_DepthOneNeighbourhood ==
  \A r \in GraphReqs :
    (/\ req[r].pc = "done"
     /\ req[r].depth = 1
     /\ hasPaper(papers, req[r].paperId))
      => /\ NodeIds(req[r].rnodes) =
              Within(req[r].paperId, 1) \cap DOMAIN papers
         /\ Len(req[r].rnodes) = Cardinality(NodeIds(req[r].rnodes))
         /\ Len(req[r].rlinks) = Len(RootLinks(req[r].paperId))
         /\ \A i \in DOMAIN req[r].rlinks :
              Count(req[r].rlinks, req[r].rlinks[i]) =
                Count(RootLinks(req[r].paperId), req[r].rlinks[i])

----------------------------------------------------------------------------
(* The search history.                                                     *)

\* a served search of a signed-in user has written one history row
HistoryOnce ==
  \A r \in SearchReqs :
    (req[r].pc = "done" /\ req[r].status = 200 /\ TruthyNum(req[r].userId))
      => req[r].nHistory = 1

\* a step that leaves every history row as it is
HistoryKept ==
  \A i \in DOMAIN searchQueries :
    i \in DOMAIN searchQueries' /\ searchQueries'[i] = searchQueries[i]

\* C14: every search served to a signed-in user, from the cache or from the
\* provider, creates exactly one history row, and no history row is changed
C14_OneHistoryRow == []HistoryOnce /\ [][HistoryKept]_vars

----------------------------------------------------------------------------
(* The chat.                                                               *)

ChatPosts == {r \in Reqs : req[r].kind = "chatpost"}

\* the user's message of request r is a row of its session
UserRowStored(r) ==
  /\ req[r].userRow \in 1..Len(chatMessages)
  /\ chatMessages[req[r].userRow] =
       [sessionId |-> req[r].sessionId, role |-> "user", content |-> req[r].content]

\* the assistant rows are the rows the requests have stored
AssistantRows == {i \in 1..Len(chatMessages) : chatMessages[i].role = "assistant"}

\* C11: the user's message is stored before the completion is called, the
\* assistant's message is stored only after the completion has returned a
\* reply, and a request whose completion fails leaves its user message
\* stored and no assistant message
C11_ChatPersistenceOrder ==
  /\ \A r \in ChatPosts :
       /\ req[r].nFetch > 0 => UserRowStored(r)
       /\ req[r].assistantRow # 0 =>
            /\ req[r].replied /\ req[r].nFetch = 1
            /\ req[r].assistantRow > req[r].userRow
            /\ req[r].assistantRow \in AssistantRows
       /\ (req[r].pc = "done" /\ req[r].nFetch > 0 /\ ~req[r].replied) =>
            /\ req[r].status = 500
            /\ UserRowStored(r)
            /\ req[r].assistantRow = 0
  /\ AssistantRows = {req[r].assistantRow : r \in ChatPosts} \ {0}

\* a completion failed: the request is answered 500, its user message is
\* stored and no assistant message is
C11_Witness ==
  \E r \in ChatPosts :
    /\ req[r].pc = "done" /\ req[r].status = 500 /\ req[r].nFetch = 1
    /\ UserRowStored(r)
    /\ AssistantRows = {}

\* the chat posts of the users who have stored no credential
KeylessPosts ==
  {r \in ChatPosts : /\ req[r].userId \in DOMAIN users
                     /\ users[req[r].userId].openaiApiKey = "null"}

NOT_CONFIGURED == "OpenAI API key not configured"

\* C12: a message sent by a user without a stored credential fails with the
\* credential-not-configured error, the completion endpoint is not called
\* and no assistant message is stored
C12_MissingCredential ==
  /\ \A r \in KeylessPosts :
       /\ req[r].nFetch = 0
       /\ req[r].sent = <<>>
       /\ req[r].assistantRow = 0
       /\ (req[r].pc = "done" /\ req[r].userRow # 0) =>
            req[r].status = 500 /\ req[r].error = NOT_CONFIGURED
  /\ (\A r \in ChatPosts : r \in KeylessPosts) => AssistantRows = {}

\* a user without a credential has sent a message to their own session: the
\* user message is stored and the request has failed
C12_Witness ==
  \E r \in KeylessPosts :
    /\ req[r].pc = "done" /\ req[r].status = 500
    /\ req[r].error = NOT_CONFIGURED
    /\ UserRowStored(r)
    /\ req[r].nFetch = 0

\* the requests that have called the completion endpoint
Called == {r \in ChatPosts : req[r].nFetch > 0}

\* what request r forwarded is the system message and then the turns of the
\* rows it read, which are rows of its session in creation order
ForwardsStoredRows(r) ==
  /\ req[r].sent[1] = SystemMessage(req[r].paper)
  /\ Len(req[r].sent) = Len(req[r].historyRows) + 1
  /\ \A k \in DOMAIN req[r].historyRows :
       /\ req[r].historyRows[k] \in 1..Len(chatMessages)
       /\ chatMessages[req[r].historyRows[k]].sessionId = req[r].sessionId
       /\ req[r].sent[k + 1] = TurnOf(chatMessages[req[r].historyRows[k]])
       /\ k > 1 => req[r].historyRows[k - 1] < req[r].historyRows[k]

\* the new user turn of request r is the last turn it forwarded and is
\* forwarded once
EndsWithOwnTurn(r) ==
  /\ req[r].historyRows # <<>>
  /\ req[r].historyRows[Len(req[r].historyRows)] = req[r].userRow
  /\ Cardinality({k \in DOMAIN req[r].historyRows :
                    req[r].historyRows[k] = req[r].userRow}) = 1

\* C13: the completion endpoint is sent the system message followed by the
\* stored messages of the session in creation order, ending with the new
\* user turn, which appears once, whatever the interleaving of two sends
C13_ForwardedHistory ==
  \A r \in Called : ForwardsStoredRows(r) /\ EndsWithOwnTurn(r)

----------------------------------------------------------------------------
(* Upstream failures.                                                      *)

\* the requests whose one upstream call did not return a success status
FailedSearches ==
  {r \in Reqs : req[r].kind = "search" /\ req[r].nFetch > 0 /\ ~req[r].fetchOk}

FailedChats == {r \in ChatPosts : req[r].nFetch > 0 /\ ~req[r].replied}

Lookups == {r \in Reqs : req[r].kind \in {"detail", "citations", "references"}}

FailedLookups == {r \in Lookups : req[r].upstream \in {"status", "failed"}}

\* no request calls its upstream endpoint again
NoRetry ==
  \A r \in Reqs :
    req[r].kind \in {"search", "chatpost", "detail", "citations", "references"} =>
      req[r].nFetch <= 1

\* C15: whenever the provider or the completion endpoint answers
\* with a non-success status or the call fails, the search, detail,
\* citations, references or chat request ends with a 500, without a retry
C15_UpstreamFailureIs500 ==
  /\ NoRetry
  /\ \A r \in FailedSearches \cup FailedChats \cup FailedLookups :
       req[r].pc = "done" /\ req[r].status = 500

\* what the handlers do: a failed search or completion call, whatever the
\* failure, ends the request with a 500; a detail, citations or references
\* request ends with a 404 when the provider answers with a non-success
\* status and with a 500 when the call fails; no request repeats its call
UpstreamFailureMapping ==
  /\ NoRetry
  /\ \A r \in FailedSearches \cup FailedChats :
       req[r].pc = "done" /\ req[r].status = 500
  /\ \A r \in FailedLookups :
       /\ req[r].pc = "done"
       /\ req[r].status = IF req[r].upstream = "status" THEN 404 ELSE 500

----------------------------------------------------------------------------
(* The validation of a search.                                             *)

\* the query of the body is missing, empty or not a string
QueryMissingEmptyOrNotString(body) ==
  body.query = AbsentStr \/ body.query = <<>> \/ body.queryType # "string"

InvalidSearches ==
  {r \in Reqs : req[r].kind = "search" /\ QueryMissingEmptyOrNotString(req[r].body)}

\* an invalid search is answered 400 by its first step, which serves no
\* page and leaves the stores as they are
RejectedUnchanged ==
  \A r \in InvalidSearches :
    (req[r].pc = "lookup" /\ req'[r] # req[r]) =>
      /\ req'[r].pc = "done" /\ req'[r].status = 400
      /\ req'[r].rpapers = <<>> /\ ~req'[r].cached
      /\ UNCHANGED <<storeVars, chatVars>>

\* an invalid search is at its validation or answered 400, having fetched,
\* stored and served nothing
RejectedIdle ==
  \A r \in InvalidSearches :
    /\ req[r].pc \in {"lookup", "done"}
    /\ req[r].pc = "done" => req[r].status = 400
    /\ req[r].nFetch = 0 /\ req[r].nStore = 0 /\ req[r].nHistory = 0
    /\ req[r].attempted = {} /\ req[r].matchedRow = {}
    /\ req[r].rpapers = <<>> /\ ~req[r].cached

\* C16: a search whose query is missing, empty or not a string is answered
\* 400 and leaves all state unchanged: no cached page is served, no cache
\* entry, history row or paper is created and the provider is not called
C16_SearchValidation == []RejectedIdle /\ [][RejectedUnchanged]_vars

\* a signed-in client's search for a number has been answered 400 while the
\* cache holds an entry
C16_Witness ==
  \E r \in InvalidSearches :
    /\ req[r].body.query = <<"7">>
    /\ TruthyNum(req[r].userId)
    /\ req[r].pc = "done" /\ req[r].status = 400
    /\ searchCache # {}

----------------------------------------------------------------------------
(* The authentication gate.                                                *)

\* the requests on the routes behind requireAuth
Guarded == {r \in Reqs : req[r].kind \in {"chatpost", "chatread"}}

\* the users whose signed token request r carries after `Bearer `
TokenUsers(r) ==
  {u \in DOMAIN users : req[r].authorization = Bearer(generateToken(u))}

\* a guarded request runs its handler as the user of its token, and without
\* such a token it is answered 401 on arrival, having read, stored and
\* called nothing
GateHolds ==
  \A r \in Guarded :
    IF TokenUsers(r) # {}
      THEN req[r].userId \in TokenUsers(r) /\ req[r].status # 401
      ELSE /\ req[r].pc = "done" /\ req[r].status = 401
           /\ req[r].userId = AbsentNum
           /\ req[r].userRow = 0 /\ req[r].assistantRow = 0
           /\ req[r].nFetch = 0 /\ req[r].rmessages = <<>>

\* a search is never answered 401, and carries a user only with a token
OptionalHolds ==
  \A r \in Reqs :
    req[r].kind = "search" =>
      /\ req[r].status # 401
      /\ IF TokenUsers(r) # {} THEN req[r].userId \in TokenUsers(r)
         ELSE req[r].userId = AbsentNum

\* the step that answers 401 leaves the stores as they are
DenialUnchanged ==
  \A r \in Reqs :
    (req'[r] # req[r] /\ req'[r].status = 401) => UNCHANGED <<storeVars, chatVars>>

\* C17: behind requireAuth the handler runs only for a Bearer token that
\* verifies, as the token's user; a missing header, a header that is not a
\* Bearer header and a token that does not verify are answered 401 with no
\* state change; optionalAuth always continues and sets the user only for a
\* token that verifies
C17_AuthenticationGate ==
  [](GateHolds /\ OptionalHolds) /\ [][DenialUnchanged]_vars

\* the first user's post has stored its two rows, and the read that
\* followed with a Bearer token that does not verify was answered 401
C17_Witness ==
  /\ Len(chatMessages) = 2
  /\ \E r \in Guarded :
       /\ req[r].kind = "chatread"
       /\ req[r].authorization = Bearer(<<"tx">>)
       /\ req[r].status = 401

----------------------------------------------------------------------------
(* The isolation of the chat sessions.                                     *)

\* the authenticated requests on a session that is missing or another's
Strangers ==
  {r \in Guarded :
     /\ req[r].userId # AbsentNum
     /\ \/ req[r].sessionId \notin DOMAIN chatSessions
        \/ chatSessions[req[r].sessionId].userId # req[r].userId}

\* the posts to the caller's own session whose paper has no stored record
Orphans ==
  {r \in ChatPosts \ Strangers :
     /\ req[r].userId # AbsentNum
     /\ chatSessions[req[r].sessionId].paperId \notin DOMAIN papers}

\* request r returns no message, stores no message and calls no completion
Isolated(r) ==
  /\ req[r].rmessages = <<>>
  /\ req[r].userRow = 0 /\ req[r].assistantRow = 0
  /\ req[r].nFetch = 0 /\ req[r].sent = <<>>
  /\ \A i \in 1..Len(chatMessages) :
       chatMessages[i].sessionId = req[r].sessionId =>
         \E q \in ChatPosts \ {r} : i \in {req[q].userRow, req[q].assistantRow}

\* a post without content is refused before its session is looked at
NoContent(r) == req[r].kind = "chatpost" /\ ~TruthyStr(req[r].content)

\* C18 as stated: a read or a post on a session that is missing or not the
\* caller's is answered 404, returns no message, stores none and calls no
\* completion, and so is a post to a session whose paper is not stored
C18_SessionIsolation ==
  \A r \in Strangers \cup Orphans :
    /\ Isolated(r)
    /\ req[r].pc = "done" => req[r].status = 404

\* C18: such a request returns no message, stores none and calls no
\* completion; it is answered 404, or 400 when it is a post without content
C18_SessionIsolationAfterContent ==
  \A r \in Strangers \cup Orphans :
    /\ Isolated(r)
    /\ req[r].pc = "done" =>
         req[r].status = IF NoContent(r) THEN 400 ELSE 404

\* user 2 has stored a message in their session, and the read of that
\* session by user 1 was answered 404 with no message
C18_Witness ==
  /\ \E q \in ChatPosts :
       req[q].userId = 2 /\ req[q].sessionId = 2 /\ UserRowStored(q)
  /\ \E r \in Strangers :
       /\ req[r].kind = "chatread" /\ req[r].userId = 1 /\ req[r].sessionId = 2
       /\ req[r].pc = "done" /\ req[r].status = 404
       /\ req[r].rmessages = <<>>

----------------------------------------------------------------------------
(* The cache and a failed fetch.                                           *)

\* a row is added to the cache only by the save of a search whose fetch has
\* succeeded, under the key of that search
SavedAfterFetch ==
  \A row \in searchCache' \ searchCache :
    \E r \in SearchReqs :
      /\ req[r].pc = "save" /\ req[r].fetchOk /\ req[r].nFetch = 1
      /\ req'[r].nStore = req[r].nStore + 1
      /\ row.queryHash = req[r].cacheHash

\* the step in which the fetch of a search fails ends the search with no
\* row stored
FailureStoresNothing ==
  \A r \in SearchReqs :
    (req[r].pc = "fetch" /\ req'[r].nFetch = 1 /\ ~req'[r].fetchOk) =>
      /\ searchCache' = searchCache
      /\ req'[r].pc = "done" /\ req'[r].nStore = 0

\* the searches that follow an identical search whose fetch failed
AfterFailure ==
  {r \in SearchReqs :
     /\ req[r].pc # "lookup"
     /\ \E p \in req[r].prior : p.status = 500 /\ p.expiresAt = AbsentNum}

\* a search whose fetch has failed has stored no row, and the identical
\* search after it misses the cache and calls the provider
MissesAgain ==
  /\ \A r \in SearchReqs :
       (req[r].nFetch > 0 /\ ~req[r].fetchOk) =>
         /\ req[r].nStore = 0 /\ req[r].pc = "done"
         /\ CacheMatches(searchCache, req[r].cacheHash) = {}
  /\ \A r \in AfterFailure :
       /\ ~req[r].cached
       /\ req[r].pc = "done" => req[r].nFetch = 1

\* C19: a cache entry is stored only after a successful external fetch; a
\* failed call or a non-success status stores no entry for the key, and the
\* next identical search misses again and calls the provider
C19_CacheAfterSuccessOnly ==
  []MissesAgain /\ [][SavedAfterFetch /\ FailureStoresNothing]_vars

\* a search has failed at its fetch, and the identical search after it has
\* missed, fetched and stored its row
C19_Witness ==
  \E r \in AfterFailure :
    /\ req[r].pc = "done" /\ req[r].status = 200
    /\ req[r].nFetch = 1 /\ req[r].nStore = 1
    /\ CacheMatches(searchCache, req[r].cacheHash) # {}

----------------------------------------------------------------------------
(* The enrichment of the authors.                                          *)

\* the searches that are about to insert a paper
Creating == {r \in SearchReqs : req[r].pc = "create"}

\* every author whose fetch failed is handed to the insert with the name and
\* the authorId the provider listed, and without an h-index
FailedKeepIdentity ==
  \A r \in Creating :
    LET listed == ProviderAuthors(req[r].papers[req[r].i].paperId)
    IN  \A k \in req[r].enrichFailed :
          /\ k \in DOMAIN req[r].enrichedAuthors
          /\ req[r].enrichedAuthors[k].name = listed[k].name
          /\ req[r].enrichedAuthors[k].authorId = listed[k].authorId
          /\ req[r].enrichedAuthors[k].authorId # "undefined"
          /\ req[r].enrichedAuthors[k].hIndex = AbsentNum

\* the insert stores the paper with those authors and the search goes on
InsertedAnyway ==
  \A r \in Creating :
    req'[r] # req[r] =>
      /\ req[r].papers[req[r].i].paperId \in DOMAIN papers'
      /\ papers'[req[r].papers[req[r].i].paperId].authors = req[r].enrichedAuthors
      /\ req'[r].rejected = "none"
      /\ req'[r].status \in {0, 200}

\* a search that has finished after a failed author fetch has succeeded
SucceedsAnyway ==
  \A r \in SearchReqs :
    (req[r].pc = "done" /\ req[r].enrichFailed # {}) =>
      /\ req[r].status = 200
      /\ \A k \in DOMAIN req[r].rpapers : req[r].rpapers[k].paperId \in DOMAIN papers

\* C20: whichever of the author fetches of a paper fail, the paper is
\* inserted and the search succeeds, and every author whose fetch failed is
\* stored with its original name and author id
C20_EnrichmentIsolation ==
  [](FailedKeepIdentity /\ SucceedsAnyway) /\ [][InsertedAnyway]_vars

\* both author fetches of P3 failed: the search has answered 200 and P3 is
\* stored with B1 and B2 under their names and ids, without an h-index
C20_Witness ==
  \E r \in SearchReqs :
    /\ req[r].pc = "done" /\ req[r].status = 200
    /\ req[r].enrichFailed = {1, 2}
    /\ "P3" \in DOMAIN papers
    /\ \A k \in {1, 2} :
         /\ papers["P3"].authors[k].name = ProviderAuthors("P3")[k].name
         /\ papers["P3"].authors[k].authorId = ProviderAuthors("P3")[k].authorId
         /\ papers["P3"].authors[k].hIndex = AbsentNum

----------------------------------------------------------------------------
(* The connection lookup.                                                  *)

\* the stored rows whose source or target is paperId, by position
RowsOf(paperId) ==
  {i \in DOMAIN connections :
     connections[i].sourcePaperId = paperId \/ connections[i].targetPaperId = paperId}

\* the sequence rows holds each row of the positions S as often as S does
HoldsExactly(rows, S) ==
  /\ Len(rows) = Cardinality(S)
  /\ \A i \in S :
       Count(rows, connections[i]) =
         Cardinality({j \in S : connections[j] = connections[i]})

\* C21: on every storage class getPaperConnections(p) returns exactly the
\* stored rows whose source is p or whose target is p
C21_BothDirections ==
  \A p \in PaperIds :
    \A rows \in getPaperConnections(backend, connections, p) :
      HoldsExactly(rows, RowsOf(p))

----------------------------------------------------------------------------
(* The connection rows of the lookups.                                     *)

EdgeReqs == {r \in Reqs : req[r].kind \in {"citations", "references"}}

\* the entries of request r that name a paper, among its first n entries
Named(r, n) == {k \in 1..n : req[r].edges[k].paper # NoPaperRef}

\* the entries of request r whose row is written: those before entry i
Written(r) == Named(r, req[r].i - 1)

\* the last rows of the table, as many as request r has written, are the
\* rows of its entries, whatever the rows before them
TailIsOwn(r) ==
  LET n == Cardinality(Written(r))
      base == Len(connections) - n
  IN  /\ base >= 0
      /\ \A k \in Written(r) :
           \E j \in 1..n :
             /\ j = Cardinality(Named(r, k))
             /\ connections[base + j].sourcePaperId \in {req[r].paperId, req[r].edges[k].paper}
             /\ connections[base + j].targetPaperId \in {req[r].paperId, req[r].edges[k].paper}

\* a served lookup has written one row for each paper it returns
OneRowPerPaper ==
  \A r \in EdgeReqs :
    /\ TailIsOwn(r)
    /\ (req[r].pc = "done" /\ req[r].status = 200) =>
         Cardinality(Written(r)) = Len(req[r].rpapers)

\* the table changes by one row added at its end, and a lookup at its insert
\* adds the row even when the table holds an equal row
OnlyAppended ==
  /\ connections' # connections =>
       /\ Len(connections') = Len(connections) + 1
       /\ SubSeq(connections', 1, Len(connections)) = connections
  /\ \A r \in EdgeReqs :
       (req[r].pc = "connect" /\ req'[r] # req[r]) =>
         Len(connections') = Len(connections) + 1

\* C22: every served citation or reference lookup inserts one new row for
\* each paper it returns, whatever rows are stored, so that k identical
\* lookups leave k rows of an edge; no row is updated or deleted
C22_NoEdgeDeduplication == []OneRowPerPaper /\ [][OnlyAppended]_vars

\* a second identical lookup has been served and the table holds the row of
\* its edge twice
C22_Witness ==
  \E r \in EdgeReqs :
    /\ req[r].pc = "done" /\ req[r].status = 200
    /\ Len(req[r].rpapers) = 1
    /\ Len(connections) = 2
    /\ connections[1] = connections[2]

\* the row a step has added to the table
Added == connections'[Len(connections')]

\* the row added for entry e of a citation lookup for paper p points from
\* the citing paper to p, the row of a reference lookup from p to the cited
\* paper, and the strength is 2 for an influential entry and 1 otherwise
RowAsObserved ==
  \A r \in EdgeReqs :
    (req[r].pc = "connect" /\ req'[r] # req[r]) =>
      LET e == req[r].edges[req[r].i]
          p == req[r].paperId
      IN  /\ Len(connections') = Len(connections) + 1
          /\ req[r].kind = "citations" =>
               /\ Added.sourcePaperId = e.paper /\ Added.targetPaperId = p
               /\ Added.connectionType = "citation"
          /\ req[r].kind = "references" =>
               /\ Added.sourcePaperId = p /\ Added.targetPaperId = e.paper
               /\ Added.connectionType = "reference"
          /\ e.isInfluential => Added.strength = 2
          /\ ~e.isInfluential => Added.strength = 1

StrengthsInRange ==
  \A i \in DOMAIN connections : connections[i].strength \in {1, 2}

\* C23: a row written by a citation lookup for P has the citing paper as its
\* source, P as its target and type citation; a row written by a reference
\* lookup for P has P as its source, the cited paper as its target and type
\* reference; the strength is 2 for an influential edge and 1 otherwise, so
\* every stored strength is 1 or 2
C23_EdgeDirectionAndStrength == []StrengthsInRange /\ [][RowAsObserved]_vars

\* the lookups have stored the influential reference of P1 to P3 with
\* strength 2 and the citation of P2 by P3 with strength 1
C23_Witness ==
  /\ \E i \in DOMAIN connections :
       /\ connections[i].connectionType = "reference"
       /\ connections[i].sourcePaperId = "P1" /\ connections[i].targetPaperId = "P3"
       /\ connections[i].strength = 2
  /\ \E i \in DOMAIN connections :
       /\ connections[i].connectionType = "citation"
       /\ connections[i].sourcePaperId = "P3" /\ connections[i].targetPaperId = "P2"
       /\ connections[i].strength = 1

----------------------------------------------------------------------------
(* A root without a record.                                                *)

\* the answered graph requests of depth 1 or more whose root is not stored
RootlessGraphs ==
  {r \in GraphReqs : /\ req[r].pc = "done"
                     /\ req[r].depth >= 1
                     /\ ~hasPaper(papers, req[r].paperId)}

\* the other end of the row at position i, seen from paper p
OtherEnd(i, p) ==
  IF connections[i].sourcePaperId = p THEN connections[i].targetPaperId
  ELSE connections[i].sourcePaperId

\* C24: when the root has no stored record, the graph of depth 1 or more has
\* a link for every row that touches the root and a node for every stored
\* paper at the other end of such a row, and no node for the root
C24_RecordlessRoot ==
  \A r \in RootlessGraphs :
    LET root == req[r].paperId
    IN  /\ root \notin NodeIds(req[r].rnodes)
        /\ \A i \in RowsOf(root) :
             /\ Count(req[r].rlinks, LinkOf(connections[i])) >=
                  Cardinality({j \in RowsOf(root) : connections[j] = connections[i]})
             /\ hasPaper(papers, OtherEnd(i, root)) =>
                  OtherEnd(i, root) \in NodeIds(req[r].rnodes)

-----------------------------------------------------------------------------
(* Searches for one key that overlap.                                      *)

\* the searches that looked the cache up and found no fresh row
Misses ==
  {r \in Reqs : /\ req[r].kind = "search"
                /\ req[r].lookupAt # AbsentNum
                /\ ~req[r].cached}

\* C25: there is no per-key in-flight guard: every search that finds no
\* fresh cache row makes its own call to the external provider, and stores
\* its own cache row when the call succeeds, whatever other searches for the
\* same key are under way; a miss is never answered without its own call.
C25_ConcurrentMiss ==
  \A r \in Misses :
    /\ req[r].pc \in {"history", "fetch"} => req[r].nFetch = 0
    /\ req[r].pc \notin {"history", "fetch"} => req[r].nFetch = 1
    /\ req[r].pc \notin {"history", "fetch", "save"} =>
         req[r].nStore = (IF req[r].fetchOk THEN 1 ELSE 0)
    /\ req[r].pc = "done" =>
         req[r].status = (IF req[r].fetchOk /\ req[r].rejected = "none"
                            THEN 200 ELSE 500)

\* every connection has sent the same key to an empty cache at the same
\* hour, and each search made its own external call and stored its own row:
\* as many calls within the window as there were searches
C25_Witness ==
  /\ \A r \in Reqs :
       /\ r \in Misses /\ req[r].pc = "done" /\ req[r].status = 200
       /\ req[r].matchedRow = {} /\ req[r].lookupAt = 0
       /\ req[r].nFetch = 1 /\ req[r].nStore = 1
       /\ req[r].cacheHash = req[1].cacheHash
  /\ now = 0

-----------------------------------------------------------------------------
(* The papers of the neighbourhood.                                        *)

\* the stored papers at most n rows away from root
StoredWithin(root, n) == Within(root, n) \cap DOMAIN papers

\* C26: on the storage classes whose lookup returns the rows of both
\* directions, every stored paper at most depth rows away from the root,
\* the rows taken as undirected, is among the nodes of the answer, over
\* every table and every order of the rows
C26_NeighbourhoodComplete ==
  \A r \in GraphReqs :
    (req[r].pc = "done" /\ backend # "db2") =>
      StoredWithin(req[r].paperId, req[r].depth) \subseteq NodeIds(req[r].rnodes)

-----------------------------------------------------------------------------
(* The links of the rows.                                                  *)

\* source, target and type of a link
Ends(link) == <<link.source, link.target, link.type>>

\* how many links of the answer are the link of row i
LinksOfRow(links, i) ==
  Cardinality({k \in DOMAIN links : links[k] = LinkOf(connections[i])})

\* C27: a connection row contributes at most one link to the answer, so over
\* a table without duplicate rows no two links of the answer have the same
\* source, target and type, for every depth
C27_OneLinkPerRow ==
  \A r \in GraphReqs :
    (req[r].pc = "done" /\ NoDuplicates(connections)) =>
      /\ \A i \in DOMAIN connections : LinksOfRow(req[r].rlinks, i) <= 1
      /\ \A j, k \in DOMAIN req[r].rlinks :
           j # k => Ends(req[r].rlinks[j]) # Ends(req[r].rlinks[k])

-----------------------------------------------------------------------------
(* The authors of an inserted paper.                                       *)

\* C28: the record the search endpoint inserts holds every author the
\* provider lists for the paper, in the same order and under the same names,
\* however many there are
C28_AuthorListPreserved ==
  \A r \in SearchReqs : \A i \in DOMAIN req[r].papers :
    LET paperData == req[r].papers[i]
    IN  (paperData.paperId \in req[r].attempted /\ req[r].rejected # paperData.paperId) =>
          /\ paperData.paperId \in DOMAIN papers
          /\ AuthorNames(papers[paperData.paperId].authors) =
               AuthorNames(paperData.authors)

-----------------------------------------------------------------------------
(* The papers of a response and the store.                                 *)

\* the searches that have answered 200
Served == {r \in SearchReqs : req[r].pc = "done" /\ req[r].status = 200}

\* no handler is between its arrival and its response
Quiet == \A r \in Reqs : Free(r)

\* C29: once the requests under way have come to their responses, every
\* paper of the papers array of a 200 response, cached or not, has a record
\* in the store, after any sequence of searches, those that failed in their
\* upsert loop after the cache row was written among them
C29_ServedPapersStored ==
  Quiet =>
    \A r \in Served : \A k \in DOMAIN req[r].rpapers :
      hasPaper(papers, req[r].rpapers[k].paperId)

-----------------------------------------------------------------------------
(* Who is given the rows of the search history.                            *)

\* the requests that read the search history and have answered
HistoryReads ==
  {r \in Reqs : req[r].kind \in {"history", "recent"} /\ req[r].pc = "done"}

\* C30: a history row owned by a user is returned only to a request
\* authenticated as that user; GET /api/searches/recent, which authenticates
\* nobody, returns no row of a user, whatever its limit parameter
C30_HistoryConfidential ==
  \A r \in HistoryReads : \A k \in DOMAIN req[r].rsearches :
    TruthyNum(req[r].rsearches[k].userId) =>
      req[r].userId = req[r].rsearches[k].userId

====
